---- MODULE Spec2Model ----
(***************************************************************************)
(* Grade calculation engine of LUSIA Studio (grades_service.py), and the   *)
(* quiz grader and student assignment updates of assignments_service.py.   *)
(*                                                                         *)
(* Decimal values are kept exact: a Decimal that the code derives by       *)
(* dividing by 100 is stored as its numerator in hundredths, and every     *)
(* rounding operator takes the value as a fraction n/d.  A nullable column *)
(* is a sequence of length 0 (None) or 1 (Some(v)).                        *)
(***************************************************************************)
EXTENDS Integers, Sequences, FiniteSets, TLC

VARIABLES
    period_weights,  \* student_grade_settings.period_weights of the enrollment's settings
    periods,         \* student_subject_periods of the enrollment, by period_number
    elements,        \* subject_evaluation_elements, by period_number, in created_at order
    annual,          \* student_annual_subject_grades row of the enrollment (None when absent)
    ret,             \* the last service call: its name, target and HTTP status
    settings,        \* the student's latest student_grade_settings row (None when absent)
    enrollments,     \* student_subject_enrollments of one subject, by academic year
    annual_grades,   \* student_annual_subject_grades.annual_grade of each enrollment
    cfds,            \* student_subject_cfd rows of the subject, by terminal academic year
    snapshots,       \* student_cfs_snapshot rows, by academic year
    body,            \* the body get_cfs_dashboard returned last (None after another call)
    cfs_args,        \* arguments of a _compute_cfs_value call: its cfds and cohort_year
    cfs_result,      \* what that call returned (None before it returns)
    grade_settings,  \* student_grade_settings rows of the student, in insertion order
    year_enrollments,\* student_subject_enrollments of the subject, in insertion order
    quiz_args,       \* arguments of a _grade_quiz_attempt call: its questions and the attempt payload
    quiz_result,     \* what that call returned (None before it returns)
    pc,              \* position of each concurrent request in its handler
    local,           \* each concurrent request's payload and what it has read from the store
    student_assignment \* the student_assignments row the requests are about (None when absent)

cascadeVars == <<period_weights, periods, elements, annual>>

dashboardVars == <<settings, enrollments, annual_grades, cfds, snapshots, body>>

cfsValueVars == <<cfs_args, cfs_result>>

settingsVars == <<grade_settings, year_enrollments>>

quizVars == <<quiz_args, quiz_result>>

callVars == <<pc, local, student_assignment>>

vars == <<period_weights, periods, elements, annual, ret, settings, enrollments,
          annual_grades, cfds, snapshots, body, cfs_args, cfs_result,
          grade_settings, year_enrollments,
          quiz_args, quiz_result,
          pc, local, student_assignment>>

-----------------------------------------------------------------------------
(* Nullable values *)

None == <<>>

Some(v) == <<v>>

IsNone(o) == o = <<>>

Get(o) == o[1]

-----------------------------------------------------------------------------
(* Bounds and input domains *)

\* largest number of evaluation elements a replace_elements payload carries
MaxElems == 2

\* period_weights of the enrollment's settings, as create_settings accepts them
\* for a semestral regime (two weights that sum to 100)
PeriodWeightChoices == { <<50, 50>>, <<40, 60>> }

\* pauta grades a student types in (update_period_grade / override_period_grade)
PautaInputs == { 12 }

\* raw grades a student types into an evaluation element
RawGradeInputs == { 13 }

Element(w, g) == [weight_percentage |-> w, raw_grade |-> g]

OptionalOf(S) == { None } \cup { Some(v) : v \in S }

\* n weights that sum to 100: equal shares, the last one takes the remainder
SplitWeights(n) == [i \in 1..n |-> IF i < n THEN 100 \div n ELSE 100 - (n - 1) * (100 \div n)]

\* a payload of n elements with the weights ws, the first element graded g
PayloadOf(ws, g) == [i \in 1..Len(ws) |-> Element(ws[i], IF i = 1 THEN Some(g) ELSE None)]

\* payloads of replace_elements: one element or MaxElems elements whose weights
\* sum to 100, MaxElems weights that sum to 99 or to 101 (the first share
\* lowered or raised by 1), and the empty list
ElementPayloads ==
    { <<>> }
    \cup { PayloadOf(SplitWeights(n), g) : n \in { 1, MaxElems }, g \in RawGradeInputs }
    \cup { PayloadOf([SplitWeights(MaxElems) EXCEPT ![1] = @ + d], g) :
              d \in { 0 - 1, 1 }, g \in RawGradeInputs }

-----------------------------------------------------------------------------
(* Decimal helpers *)

\* _dec of a nullable number: None counts as 0
_dec(o) == IF IsNone(o) THEN 0 ELSE Get(o)

\* _round_half_up of the value n/d (d > 0): quantize(Decimal("1"), ROUND_HALF_UP),
\* ties go away from zero
_round_half_up_floor(n, d) == n \div d

_round_half_up_even(n, d) ==
    LET q == n \div d
        r == n % d
    IN  IF 2 * r < d THEN q
        ELSE IF 2 * r > d THEN q + 1
        ELSE IF q % 2 = 0 THEN q ELSE q + 1

\* floor(value + 1/2): exact halves go toward positive infinity
_round_half_up_toward_positive(n, d) == (2 * n + d) \div (2 * d)

_round_half_up(n, d) ==
    IF n >= 0 THEN (2 * n + d) \div (2 * d)
    ELSE 0 - ((2 * (0 - n) + d) \div (2 * d))

-----------------------------------------------------------------------------
(* Algorithm A: period grade *)

EmptyPeriod ==
    [raw_calculated |-> None, calculated_grade |-> None, pauta_grade |-> None,
     is_overridden |-> FALSE, override_reason |-> None]

\* graded = [e for e in elements if e.get("raw_grade") is not None]
Graded(els) == SelectSeq(els, LAMBDA e : ~IsNone(e.raw_grade))

\* sum(Decimal(str(e.weight_percentage)) for e in elements)
RECURSIVE WeightSum(_)
WeightSum(els) ==
    IF els = <<>> THEN 0 ELSE Head(els).weight_percentage + WeightSum(Tail(els))

RawCalculatedRenormalised(graded) ==
    LET RECURSIVE Num(_)
        Num(g) == IF g = <<>> THEN 0
                  ELSE _dec(Head(g).raw_grade) * Head(g).weight_percentage + Num(Tail(g))
    IN  IF WeightSum(graded) = 0 THEN 0 ELSE (Num(graded) * 100) \div WeightSum(graded)

\* sum(raw_grade * weight_percentage / 100 for e in graded), in hundredths
RECURSIVE RawCalculated(_)
RawCalculated(graded) ==
    IF graded = <<>> THEN 0
    ELSE _dec(Head(graded).raw_grade) * Head(graded).weight_percentage
         + RawCalculated(Tail(graded))

\* whether recalculate_period_grade reaches its update and cascade (no early return)
HasGraded(els) == Graded(els) # <<>>

RecalculatedPeriodZeroed(per, els) ==
    IF ~HasGraded(els)
    THEN [per EXCEPT !.raw_calculated = Some(0), !.calculated_grade = Some(0)]
    ELSE LET raw == RawCalculated(Graded(els))
             calc == _round_half_up(raw, 100)
         IN  IF per.is_overridden
             THEN [per EXCEPT !.raw_calculated = Some(raw), !.calculated_grade = Some(calc)]
             ELSE [per EXCEPT !.raw_calculated = Some(raw), !.calculated_grade = Some(calc),
                              !.pauta_grade = Some(calc)]

\* the period row after recalculate_period_grade
RecalculatedPeriod(per, els) ==
    IF ~HasGraded(els)
    THEN [per EXCEPT !.raw_calculated = None, !.calculated_grade = None]
    ELSE LET raw == RawCalculated(Graded(els))
             calc == _round_half_up(raw, 100)
         IN  IF per.is_overridden
             THEN [per EXCEPT !.raw_calculated = Some(raw), !.calculated_grade = Some(calc)]
             ELSE [per EXCEPT !.raw_calculated = Some(raw), !.calculated_grade = Some(calc),
                              !.pauta_grade = Some(calc)]

-----------------------------------------------------------------------------
(* Algorithm B: annual grade (CAF) *)

AnyPeriodGraded(pers) == \E n \in DOMAIN pers : ~IsNone(pers[n].pauta_grade)

\* all(p.get("pauta_grade") is not None for p in periods)
AllPeriodsGraded(pers) == \A n \in DOMAIN pers : ~IsNone(pers[n].pauta_grade)

\* raw_annual, in hundredths: SUM(pauta_grade[i] * weight[i] / 100), idx < len(weights)
RECURSIVE RawAnnualFrom(_, _, _)
RawAnnualFrom(pers, weights, n) ==
    IF n > Len(pers) THEN 0
    ELSE (IF n - 1 < Len(weights) THEN _dec(pers[n].pauta_grade) * weights[n] ELSE 0)
         + RawAnnualFrom(pers, weights, n + 1)

RawAnnual(pers, weights) == RawAnnualFrom(pers, weights, 1)

\* the annual-grade row of the enrollment after _try_recalculate_annual
_try_recalculate_annual(pers, weights) ==
    IF ~AllPeriodsGraded(pers) THEN None
    ELSE LET raw == RawAnnual(pers, weights)
         IN  Some([raw_annual |-> raw, annual_grade |-> _round_half_up(raw, 100)])

-----------------------------------------------------------------------------
(* Service operations on periods and elements *)

Periods == DOMAIN periods

Result(op, id, status) == [op |-> op, target |-> id, status |-> status]

update_period_grade(p, pauta) ==
    LET cleared == [periods[p] EXCEPT !.is_overridden = FALSE, !.override_reason = None]
        row == IF IsNone(pauta) THEN cleared
               ELSE [cleared EXCEPT !.pauta_grade = pauta, !.calculated_grade = pauta]
        pers == [periods EXCEPT ![p] = row]
    IN  /\ periods' = pers
        /\ annual' = _try_recalculate_annual(pers, period_weights)
        /\ ret' = Result("update_period_grade", p, 200)
        /\ UNCHANGED <<period_weights, elements>>

override_period_grade(p, pauta) ==
    LET row == [periods[p] EXCEPT !.pauta_grade = Some(pauta), !.is_overridden = TRUE,
                                  !.override_reason = Some("reason")]
        pers == [periods EXCEPT ![p] = row]
    IN  /\ periods' = pers
        /\ annual' = _try_recalculate_annual(pers, period_weights)
        /\ ret' = Result("override_period_grade", p, 200)
        /\ UNCHANGED <<period_weights, elements>>

\* recalculate_period_grade(period_id) and its cascade, on the element rows els
RecalculateAndCascade(p, els) ==
    LET pers == [periods EXCEPT ![p] = RecalculatedPeriod(periods[p], els)]
    IN  /\ periods' = pers
        /\ annual' = IF HasGraded(els) THEN _try_recalculate_annual(pers, period_weights)
                     ELSE annual

replace_elements_at_least(p, payload) ==
    IF WeightSum(payload) < 100
    THEN /\ ret' = Result("replace_elements", p, 400)
         /\ UNCHANGED cascadeVars
    ELSE /\ elements' = [elements EXCEPT ![p] = payload]
         /\ RecalculateAndCascade(p, payload)
         /\ ret' = Result("replace_elements", p, 200)
         /\ UNCHANGED period_weights

replace_elements(p, payload) ==
    IF WeightSum(payload) # 100
    THEN /\ ret' = Result("replace_elements", p, 400)
         /\ UNCHANGED cascadeVars
    ELSE /\ elements' = [elements EXCEPT ![p] = payload]
         /\ RecalculateAndCascade(p, payload)
         /\ ret' = Result("replace_elements", p, 200)
         /\ UNCHANGED period_weights

update_element_grade(p, i, raw) ==
    /\ i \in 1..Len(elements[p])
    /\ LET els == [elements[p] EXCEPT ![i].raw_grade = raw]
       IN  /\ elements' = [elements EXCEPT ![p] = els]
           /\ RecalculateAndCascade(p, els)
    /\ ret' = Result("update_element_grade", p, 200)
    /\ UNCHANGED period_weights

\* rows copied into a target period: same structure, raw_grade None
CopiedRows(source) == [i \in 1..Len(source) |-> [source[i] EXCEPT !.raw_grade = None]]

copy_elements_to_other_periods(p) ==
    IF elements[p] = <<>>
    THEN /\ ret' = Result("copy_elements_to_other_periods", p, 400)
         /\ UNCHANGED cascadeVars
    ELSE /\ elements' = [q \in Periods |->
                            IF q = p THEN elements[q] ELSE CopiedRows(elements[p])]
         /\ ret' = Result("copy_elements_to_other_periods", p, 200)
         /\ UNCHANGED <<period_weights, periods, annual>>

\* update_annual_grade(subject_id, academic_year, annual_grade) on the enrollment
\* whose periods these are: upsert of its annual-grade row, no period is read
update_annual_grade_row(grade) ==
    /\ annual' = Some([raw_annual |-> grade * 100, annual_grade |-> grade])
    /\ ret' = Result("update_annual_grade", 0, 200)
    /\ UNCHANGED <<period_weights, periods, elements>>

-----------------------------------------------------------------------------
(* Algorithm E: CFS *)

\* cohort from which the CFS is the duration-weighted mean
WeightedCohort == 2025

\* _truncate_one_decimal of the value n/d (d > 0), in tenths:
\* math.floor(value * 10), then divided by 10
_truncate_one_decimal_rounded(n, d) == (2 * 10 * n + d) \div (2 * d)

_truncate_one_decimal(n, d) == (10 * n) \div d

\* Python round() of the value n/d (d > 0) to an integer: exact halves go to even
PyRound(n, d) ==
    LET q == n \div d
        r == n % d
    IN  IF 2 * r < d THEN q
        ELSE IF 2 * r > d THEN q + 1
        ELSE IF q % 2 = 0 THEN q ELSE q + 1

\* eligible = [c for c in cfds if c.get("affects_cfs", True)]
EligibleAll(cs) == cs

Eligible(cs) == SelectSeq(cs, LAMBDA c : c.affects_cfs)

\* use_weighted = cohort_year is not None and cohort_year >= 2025
UseWeightedNever(cohort) == FALSE

UseWeighted(cohort) == ~IsNone(cohort) /\ Get(cohort) >= WeightedCohort

RECURSIVE SumGrades(_)
SumGrades(cs) == IF cs = <<>> THEN 0 ELSE Head(cs).cfd_grade + SumGrades(Tail(cs))

RECURSIVE SumWeightedGrades(_)
SumWeightedGrades(cs) ==
    IF cs = <<>> THEN 0
    ELSE Head(cs).cfd_grade * Head(cs).duration_years + SumWeightedGrades(Tail(cs))

RECURSIVE SumDurations(_)
SumDurations(cs) == IF cs = <<>> THEN 0 ELSE Head(cs).duration_years + SumDurations(Tail(cs))

\* _compute_cfs_value: None for (None, None), else cfs_value in tenths and dges_value
_compute_cfs_value(cs, cohort) ==
    LET eligible == Eligible(cs)
        weighted == UseWeighted(cohort)
        num == IF weighted THEN SumWeightedGrades(eligible) ELSE SumGrades(eligible)
        den == IF weighted THEN SumDurations(eligible) ELSE Len(eligible)
    IN  IF eligible = <<>> THEN None
        ELSE IF weighted /\ den = 0 THEN None
        ELSE LET cfs_value == _truncate_one_decimal(num, den)
             IN  Some([cfs_value |-> cfs_value, dges_value |-> PyRound(cfs_value * 10, 10)])

\* most CFDs one _compute_cfs_value call receives
MaxCfds == 2

\* rows as the dashboard hands them over: cfd_grade, duration_years, affects_cfs
CfdInputs ==
    { [cfd_grade |-> g, duration_years |-> y, affects_cfs |-> a] :
        g \in {12, 15, 16}, y \in {1, 3}, a \in BOOLEAN }

RECURSIVE ListsUpTo(_, _)
ListsUpTo(S, n) ==
    IF n = 0 THEN { <<>> }
    ELSE LET shorter == ListsUpTo(S, n - 1)
         IN  shorter \cup { Append(l, e) : l \in { t \in shorter : Len(t) = n - 1 }, e \in S }

CohortInputs == OptionalOf({2024, 2025, 2026})

CfsValueInit ==
    /\ cfs_args \in { Some([cfds |-> l, cohort_year |-> c]) :
                        l \in ListsUpTo(CfdInputs, MaxCfds), c \in CohortInputs }
    /\ cfs_result = None

ComputeCfsValue ==
    /\ IsNone(cfs_result)
    /\ cfs_result' = Some(_compute_cfs_value(Get(cfs_args).cfds, Get(cfs_args).cohort_year))
    /\ ret' = Result("_compute_cfs_value", 0, 200)
    /\ UNCHANGED <<cfs_args, cascadeVars, dashboardVars, settingsVars, quizVars, callVars>>

-----------------------------------------------------------------------------
(* Algorithms C and D: CIF and CFD *)

RECURSIVE GCD(_, _)
GCD(a, b) == IF b = 0 THEN a ELSE GCD(b, a % b)

\* the Decimal n/d (d > 0, n >= 0) in lowest terms
Frac(n, d) == LET g == GCD(n, d) IN [num |-> n \div g, den |-> d \div g]

RECURSIVE SumSeq(_)
SumSeq(q) == IF q = <<>> THEN 0 ELSE Head(q) + SumSeq(Tail(q))

\* what a call that raises returns in place of a value
Raises(exception) == [raises |-> exception]

_compute_cif_truncating(grades) ==
    IF Len(grades) = 0
    THEN Raises("ValueError")
    ELSE [cif_raw |-> Frac(SumSeq(grades), Len(grades)),
          cif_grade |-> SumSeq(grades) \div Len(grades)]

\* _compute_cif(annual_grades)
_compute_cif(grades) ==
    IF Len(grades) = 0
    THEN Raises("ValueError")
    ELSE [cif_raw |-> Frac(SumSeq(grades), Len(grades)),
          cif_grade |-> _round_half_up(SumSeq(grades), Len(grades))]

\* _compute_cfd(cif_grade, exam_grade_raw, exam_weight)
_compute_cfd_rounded_exam(cif_grade, exam_grade_raw, exam_weight) ==
    IF IsNone(exam_grade_raw) \/ IsNone(exam_weight)
    THEN [cfd_raw |-> Frac(cif_grade, 1), cfd_grade |-> cif_grade]
    ELSE LET ce == _round_half_up(Get(exam_grade_raw), 10)
             n == cif_grade * (100 - Get(exam_weight)) + ce * Get(exam_weight)
         IN  [cfd_raw |-> Frac(n, 100), cfd_grade |-> _round_half_up(n, 100)]

_compute_cfd(cif_grade, exam_grade_raw, exam_weight) ==
    IF IsNone(exam_grade_raw) \/ IsNone(exam_weight)
    THEN [cfd_raw |-> Frac(cif_grade, 1), cfd_grade |-> cif_grade]
    ELSE LET n == cif_grade * (100 - Get(exam_weight)) * 10
                  + Get(exam_grade_raw) * Get(exam_weight)
         IN  [cfd_raw |-> Frac(n, 1000), cfd_grade |-> _round_half_up(n, 1000)]

\* _convert_percentage_to_level(score)
_convert_percentage_to_level_shifted(score) ==
    IF score > 90 THEN 5
    ELSE IF score > 70 THEN 4
    ELSE IF score > 50 THEN 3
    ELSE IF score > 20 THEN 2
    ELSE 1

_convert_percentage_to_level(score) ==
    IF score >= 90 THEN 5
    ELSE IF score >= 70 THEN 4
    ELSE IF score >= 50 THEN 3
    ELSE IF score >= 20 THEN 2
    ELSE 1

\* weight of the Prova Final at basico_3_ciclo
BasicoExamWeight == 30

\* (cif_grade * 70 + exam_level * 30) / 100 and its rounding
BasicoCfd(cif_grade, exam_level) ==
    LET n == cif_grade * (100 - BasicoExamWeight) + exam_level * BasicoExamWeight
    IN  [cfd_raw |-> Frac(n, 100), cfd_grade |-> _round_half_up(n, 100)]

\* cohort from which the secondary exam weighs a flat 25
FlatWeightCohort == 2023

\* exam_weight of a secondary subject with an exam score
ExamWeightLegacyOnly(cohort_year, duration_years) == IF duration_years = 2 THEN 25 ELSE 30

ExamWeight(cohort_year, duration_years) ==
    IF ~IsNone(cohort_year) /\ Get(cohort_year) # 0 /\ Get(cohort_year) >= FlatWeightCohort
    THEN 25
    ELSE IF duration_years = 2 THEN 25 ELSE 30

-----------------------------------------------------------------------------
(* CFS dashboard: one student, one subject followed over its academic years *)

\* most academic years the subject is taken
MaxYears == 3

\* subjects(affects_cfs, has_national_exam) of the subject
SubjectInfo == [affects_cfs |-> TRUE, has_national_exam |-> TRUE]

EducationLevels == { "secundario", "basico_3_ciclo" }

\* graduation_cohort_year is nullable (None when create_settings got none)
DashboardCohorts == { None, Some(2022), Some(2024) }

\* annual grades entered with update_annual_grade
AnnualGradeInputs == { 14 }

\* annual grades imported for past years (setup_past_year)
PastYearGradeInputs == { 14 }

\* exam scores on the 0-200 scale (update_exam_grade)
ExamGradeInputs == { 155, 160 }

\* Prova Final percentages (update_basico_exam_grade)
ExamPercentageInputs == { 90 }

\* annual_grades_list: the annual grades that exist, in academic-year order
RECURSIVE PresentGrades(_)
PresentGrades(ags) ==
    IF ags = <<>> THEN <<>>
    ELSE (IF IsNone(Head(ags)) THEN <<>> ELSE <<Get(Head(ags))>>) \o PresentGrades(Tail(ags))

\* if existing_cfd and is_candidate: only then is the stored exam score used
UseExamStored(existing, is_candidate) == ~IsNone(existing)

UseExamOnce(existing, is_candidate) ==
    ~IsNone(existing) /\ is_candidate /\ IsNone(Get(existing).exam_weight)

UseExam(existing, is_candidate) == ~IsNone(existing) /\ is_candidate

\* cfd_data as get_cfs_dashboard builds it for the subject
CfdData(set, enrs, ags, existing) ==
    LET duration_years == Len(enrs)
        cif == _compute_cif(PresentGrades(ags))
        is_candidate == enrs[Len(enrs)].is_exam_candidate
        education_level == IF IsNone(set) THEN "" ELSE Get(set).education_level
        is_basico_3 == education_level = "basico_3_ciclo"
        use_exam == UseExam(existing, is_candidate)
        exam_grade == IF use_exam THEN Get(existing).exam_grade ELSE None
        stored_raw == IF use_exam THEN Get(existing).exam_grade_raw ELSE None
        exam_grade_raw ==
            IF use_exam /\ ~is_basico_3 /\ IsNone(stored_raw)
            THEN (IF IsNone(exam_grade) THEN None ELSE Some(Get(exam_grade) * 10))
            ELSE stored_raw
        cohort_year == IF IsNone(set) THEN None ELSE Get(set).graduation_cohort_year
        exam_weight ==
            IF is_basico_3
            THEN (IF ~IsNone(exam_grade_raw) /\ SubjectInfo.has_national_exam
                  THEN Some(BasicoExamWeight) ELSE None)
            ELSE (IF ~IsNone(exam_grade_raw)
                  THEN Some(ExamWeight(cohort_year, duration_years)) ELSE None)
        cfd == IF is_basico_3
               THEN (IF ~IsNone(exam_weight)
                     THEN BasicoCfd(cif.cif_grade,
                                    _convert_percentage_to_level(Get(exam_grade_raw)))
                     ELSE [cfd_raw |-> Frac(cif.cif_grade, 1), cfd_grade |-> cif.cif_grade])
               ELSE _compute_cfd(cif.cif_grade, exam_grade_raw, exam_weight)
    IN  [cif_raw |-> cif.cif_raw, cif_grade |-> cif.cif_grade,
         exam_grade |-> exam_grade, exam_grade_raw |-> exam_grade_raw,
         exam_weight |-> exam_weight,
         cfd_raw |-> cfd.cfd_raw, cfd_grade |-> cfd.cfd_grade]

WithFinalized(data, flag) ==
    [cif_raw |-> data.cif_raw, cif_grade |-> data.cif_grade,
     exam_grade |-> data.exam_grade, exam_grade_raw |-> data.exam_grade_raw,
     exam_weight |-> data.exam_weight,
     cfd_raw |-> data.cfd_raw, cfd_grade |-> data.cfd_grade, is_finalized |-> flag]

\* the stored CFD row after the dashboard's update / insert / skip
StoredCfdOverwritten(existing, data) ==
    IF IsNone(existing) THEN Some(WithFinalized(data, FALSE))
    ELSE Some(WithFinalized(data, Get(existing).is_finalized))

StoredCfdReset(existing, data) == Some(WithFinalized(data, FALSE))

StoredCfd(existing, data) ==
    IF ~IsNone(existing) /\ ~Get(existing).is_finalized
    THEN Some(WithFinalized(data, Get(existing).is_finalized))
    ELSE IF IsNone(existing) THEN Some(WithFinalized(data, FALSE))
    ELSE existing

\* the row the dashboard returns for the subject, before hydration
ReturnedCfdComputed(existing, data) ==
    IF IsNone(existing) THEN WithFinalized(data, FALSE)
    ELSE WithFinalized(data, Get(existing).is_finalized)

ReturnedCfd(existing, data) ==
    IF ~IsNone(existing) /\ ~Get(existing).is_finalized
    THEN WithFinalized(data, Get(existing).is_finalized)
    ELSE IF IsNone(existing) THEN WithFinalized(data, FALSE)
    ELSE Get(existing)

\* the hydrated entry of the dashboard's cfds list
Hydrated(row, key, enrs) ==
    [id |-> key, row |-> row,
     cfd_grade |-> row.cfd_grade,
     affects_cfs |-> SubjectInfo.affects_cfs,
     has_national_exam |-> SubjectInfo.has_national_exam,
     is_exam_candidate |-> enrs[Len(enrs)].is_exam_candidate,
     duration_years |-> Len(enrs)]

\* terminal_year = enrs[-1]["academic_year"]
TerminalYear == Len(enrollments)

\* the cfds list the dashboard returns
DashboardCfds ==
    IF enrollments = <<>> \/ PresentGrades(annual_grades) = <<>> THEN <<>>
    ELSE LET existing == cfds[TerminalYear]
             data == CfdData(settings, enrollments, annual_grades, existing)
         IN  << Hydrated(ReturnedCfd(existing, data), TerminalYear, enrollments) >>

\* the student_subject_cfd table after the dashboard's refresh pass
DashboardStore ==
    IF enrollments = <<>> \/ PresentGrades(annual_grades) = <<>> THEN cfds
    ELSE LET existing == cfds[TerminalYear]
             data == CfdData(settings, enrollments, annual_grades, existing)
         IN  [cfds EXCEPT ![TerminalYear] = StoredCfd(existing, data)]

\* a preview that falls back to 0 instead of null when nothing can be computed
DashboardCfsDefaulting ==
    IF ~IsNone(settings) /\ DashboardCfds # <<>>
    THEN _compute_cfs_value(DashboardCfds, Get(settings).graduation_cohort_year)
    ELSE Some([cfs_value |-> 0, dges_value |-> 0])

\* computed_cfs / computed_dges of the dashboard
DashboardCfs ==
    IF ~IsNone(settings) /\ DashboardCfds # <<>>
    THEN _compute_cfs_value(DashboardCfds, Get(settings).graduation_cohort_year)
    ELSE None

get_cfs_dashboard ==
    /\ cfds' = DashboardStore
    /\ body' = Some([cfds |-> DashboardCfds, computed |-> DashboardCfs])
    /\ ret' = Result("get_cfs_dashboard", 0, 200)
    /\ UNCHANGED <<settings, enrollments, annual_grades, snapshots>>

\* update_exam_grade(cfd_id, payload.exam_grade_raw)
FinalizedStatus == 400

update_exam_grade(key, raw_200) ==
    /\ body' = None
    /\ UNCHANGED <<settings, enrollments, annual_grades, snapshots>>
    /\ IF IsNone(cfds[key])
       THEN /\ ret' = Result("update_exam_grade", key, 404)
            /\ UNCHANGED cfds
       ELSE IF Get(cfds[key]).is_finalized
       THEN /\ ret' = Result("update_exam_grade", key, FinalizedStatus)
            /\ UNCHANGED cfds
       ELSE /\ cfds' = [cfds EXCEPT ![key] =
                           Some([Get(@) EXCEPT !.exam_grade = Some(_round_half_up(raw_200, 10)),
                                               !.exam_grade_raw = Some(raw_200)])]
            /\ ret' = Result("update_exam_grade", key, 200)

\* the row update_basico_exam_grade writes over the stored row cfd
BasicoExamRow(cfd, percentage) ==
    LET exam_level == _convert_percentage_to_level(percentage)
        blended == BasicoCfd(cfd.cif_grade, exam_level)
    IN  [cfd EXCEPT !.exam_grade = Some(exam_level), !.exam_grade_raw = Some(percentage),
                    !.exam_weight = Some(BasicoExamWeight),
                    !.cfd_raw = blended.cfd_raw, !.cfd_grade = blended.cfd_grade]

update_basico_exam_grade(key, percentage) ==
    /\ body' = None
    /\ UNCHANGED <<settings, enrollments, annual_grades, snapshots>>
    /\ IF IsNone(cfds[key])
       THEN /\ ret' = Result("update_basico_exam_grade", key, 404)
            /\ UNCHANGED cfds
       ELSE IF Get(cfds[key]).is_finalized
       THEN /\ ret' = Result("update_basico_exam_grade", key, FinalizedStatus)
            /\ UNCHANGED cfds
       ELSE /\ cfds' = [cfds EXCEPT ![key] = Some(BasicoExamRow(Get(@), percentage))]
            /\ ret' = Result("update_basico_exam_grade", key, 200)

\* formula = "weighted_mean" if cohort_year >= 2025 else "simple_mean"
FormulaUsed(cohort_year) ==
    IF Get(cohort_year) >= WeightedCohort THEN "weighted_mean" ELSE "simple_mean"

\* ids of the CFDs the dashboard listed (c.get("id"))
ListedIds(listed) == { listed[i].id : i \in DOMAIN listed }

\* the CFD rows after the "Finalize all CFDs" loop: one update per listed CFD,
\* each in a try/except that logs and goes on; written holds the ids whose
\* update reached the store
FinalizeCfds(store, listed, written) ==
    [k \in DOMAIN store |->
        IF k \in ListedIds(listed) /\ k \in written /\ ~IsNone(store[k])
        THEN Some([Get(store[k]) EXCEPT !.is_finalized = TRUE])
        ELSE store[k]]

\* the snapshot row create_cfs_snapshot upserts
SnapshotRow(listed, computed, cohort_year) ==
    [cfs_value |-> Get(computed).cfs_value, dges_value |-> Get(computed).dges_value,
     graduation_cohort_year |-> cohort_year, formula_used |-> FormulaUsed(cohort_year),
     subjects |-> ListedIds(listed), is_finalized |-> TRUE]

create_cfs_snapshot(academic_year, written) ==
    /\ body' = None
    /\ UNCHANGED <<settings, enrollments, annual_grades>>
    /\ IF IsNone(settings)
       THEN /\ cfds' = DashboardStore
            /\ ret' = Result("create_cfs_snapshot", academic_year, 400)
            /\ UNCHANGED snapshots
       ELSE IF IsNone(DashboardCfs)
       THEN /\ cfds' = DashboardStore
            /\ ret' = Result("create_cfs_snapshot", academic_year, 400)
            /\ UNCHANGED snapshots
       ELSE IF IsNone(Get(settings).graduation_cohort_year)
       THEN \* None >= 2025 raises TypeError
            /\ cfds' = DashboardStore
            /\ ret' = Result("create_cfs_snapshot", academic_year, 500)
            /\ UNCHANGED snapshots
       ELSE /\ snapshots' = [snapshots EXCEPT ![academic_year] =
                                Some(SnapshotRow(DashboardCfds, DashboardCfs,
                                                 Get(settings).graduation_cohort_year))]
            /\ cfds' = FinalizeCfds(DashboardStore, DashboardCfds, written)
            /\ ret' = Result("create_cfs_snapshot", academic_year, 200)

\* update_enrollment(enrollment_id, is_exam_candidate = flag)
update_enrollment(year, flag) ==
    /\ enrollments' = [enrollments EXCEPT ![year].is_exam_candidate = flag]
    /\ body' = None
    /\ ret' = Result("update_enrollment", year, 200)
    /\ UNCHANGED <<settings, annual_grades, cfds, snapshots>>

\* update_annual_grade(subject_id, academic_year, annual_grade)
update_annual_grade(year, grade) ==
    /\ annual_grades' = [annual_grades EXCEPT ![year] = Some(grade)]
    /\ body' = None
    /\ ret' = Result("update_annual_grade", year, 200)
    /\ UNCHANGED <<settings, enrollments, cfds, snapshots>>

\* create_settings for a further academic year in which the subject is not
\* taken: the new row becomes the student's latest settings
create_settings(level, cohort) ==
    /\ settings' = Some([education_level |-> level, graduation_cohort_year |-> cohort])
    /\ body' = None
    /\ ret' = Result("create_settings", 0, 200)
    /\ UNCHANGED <<enrollments, annual_grades, cfds, snapshots>>

-----------------------------------------------------------------------------
(* Settings of the academic years: create_settings, setup_past_year, lock_settings *)

\* academic years, in order
SettingsYears == { 1, 2 }

\* payload.regime: pattern ^(trimestral|semestral)$ or absent
RegimeInputs == { None, Some("semestral"), Some("trimestral") }

\* payload.period_weights: sums of 100 with 2 and 3 weights, 99 and 101
SettingsWeightInputs == { <<50, 50>>, <<30, 30, 40>>, <<50, 49>>, <<34, 33, 34>> }

\* payload.past_year_grades: nothing, or one past year of the subject with its
\* annual grade
PastYearInputs ==
    { None } \cup { Some([academic_year |-> y, annual_grade |-> Some(g)]) :
                      y \in SettingsYears, g \in PastYearGradeInputs }

\* ids (positions) of the settings rows of an academic year
SettingsOf(rows, year) == { i \in DOMAIN rows : rows[i].academic_year = year }

\* get_settings(db, student_id, academic_year): the first such row, or None
get_settings(rows, year) ==
    IF SettingsOf(rows, year) = {} THEN None
    ELSE Some(CHOOSE i \in SettingsOf(rows, year) : \A j \in SettingsOf(rows, year) : i <= j)

\* ids of the subject's enrollments in an academic year
EnrollmentsOf(enrs, year) == { i \in DOMAIN enrs : enrs[i].academic_year = year }

SettingsRow(year, regime, weights, locked) ==
    [academic_year |-> year, regime |-> regime, period_weights |-> weights,
     is_locked |-> locked]

EnrollmentRow(year, settings_id, num_periods) ==
    [academic_year |-> year, settings_id |-> settings_id, periods |-> num_periods,
     annual_grade |-> None]

\* the settings table after "get or create settings for this past year"
WithPastSettings(rows, year, template) ==
    IF IsNone(get_settings(rows, year))
    THEN Append(rows, SettingsRow(year, template.regime, template.period_weights, TRUE))
    ELSE rows

\* the enrollment table after get-or-create of the past-year enrollment (with its
\* empty periods) and the upsert of its annual grade when one is given
WithPastEnrollment(enrs, year, settings_id, num_periods, grade) ==
    LET created == IF EnrollmentsOf(enrs, year) = {}
                   THEN Append(enrs, EnrollmentRow(year, settings_id, num_periods))
                   ELSE enrs
        id == CHOOSE i \in EnrollmentsOf(created, year) :
                  \A j \in EnrollmentsOf(created, year) : i <= j
    IN  IF IsNone(grade) THEN created
        ELSE [created EXCEPT ![id].annual_grade = grade]

\* create_settings without any check: what the validated call persists
PersistSettings(year, regime, weights, enroll, past) ==
    LET created == Append(grade_settings, SettingsRow(year, regime, weights, FALSE))
        settings_id == Len(created)
        enrolled == IF enroll
                    THEN Append(year_enrollments, EnrollmentRow(year, settings_id, Len(weights)))
                    ELSE year_enrollments
    IN  IF IsNone(past)
        THEN /\ grade_settings' = created
             /\ year_enrollments' = enrolled
        ELSE LET past_year == Get(past).academic_year
                 rows == WithPastSettings(created, past_year, created[settings_id])
             IN  /\ grade_settings' = rows
                 /\ year_enrollments' =
                       WithPastEnrollment(enrolled, past_year, Get(get_settings(rows, past_year)),
                                          Len(weights), Get(past).annual_grade)

create_settings_unchecked(year, regime, weights, enroll, past) ==
    /\ PersistSettings(year, regime, weights, enroll, past)
    /\ ret' = Result("create_settings", year, 200)

\* create_settings(db, student_id, payload) for payload.academic_year = year;
\* enroll: whether the subject is among payload.subject_ids
create_settings_for_year(year, regime, weights, enroll, past) ==
    IF SumSeq(weights) # 100
    THEN /\ ret' = Result("create_settings", year, 400)
         /\ UNCHANGED settingsVars
    ELSE IF regime = Some("semestral") /\ Len(weights) # 2
    THEN /\ ret' = Result("create_settings", year, 400)
         /\ UNCHANGED settingsVars
    ELSE IF regime = Some("trimestral") /\ Len(weights) # 3
    THEN /\ ret' = Result("create_settings", year, 400)
         /\ UNCHANGED settingsVars
    ELSE IF ~IsNone(get_settings(grade_settings, year))
    THEN /\ ret' = Result("create_settings", year, 409)
         /\ UNCHANGED settingsVars
    ELSE /\ PersistSettings(year, regime, weights, enroll, past)
         /\ ret' = Result("create_settings", year, 200)

\* the student's most recent settings: order("academic_year", desc=True).limit(1)
LatestSettings(rows) ==
    rows[CHOOSE i \in DOMAIN rows : \A j \in DOMAIN rows :
            rows[j].academic_year <= rows[i].academic_year]

\* setup_past_year(db, student_id, payload) for payload.academic_year = year;
\* enroll: whether the subject is among payload.subjects, grade its annual_grade
setup_past_year(year, enroll, grade) ==
    IF grade_settings = <<>>
    THEN /\ ret' = Result("setup_past_year", year, 400)
         /\ UNCHANGED settingsVars
    ELSE LET template == LatestSettings(grade_settings)
             existing == get_settings(grade_settings, year)
             rows == WithPastSettings(grade_settings, year, template)
             num_periods == IF IsNone(existing) THEN Len(template.period_weights)
                            ELSE Len(grade_settings[Get(existing)].period_weights)
         IN  /\ grade_settings' = rows
             /\ year_enrollments' =
                   IF enroll
                   THEN WithPastEnrollment(year_enrollments, year,
                                           Get(get_settings(rows, year)), num_periods, grade)
                   ELSE year_enrollments
             /\ ret' = Result("setup_past_year", year, 200)

\* lock_settings(db, student_id, settings_id)
lock_settings(settings_id) ==
    IF settings_id \notin DOMAIN grade_settings
    THEN /\ ret' = Result("lock_settings", settings_id, 404)
         /\ UNCHANGED settingsVars
    ELSE /\ grade_settings' = [grade_settings EXCEPT ![settings_id].is_locked = TRUE]
         /\ ret' = Result("lock_settings", settings_id, 200)
         /\ UNCHANGED year_enrollments

-----------------------------------------------------------------------------
(* Quiz answer grader (assignments_service.py).  Question contents and     *)
(* answer payloads are JSON values, kept with their type: a string "1" and *)
(* a number 1 are different values until _to_string converts them.         *)

\* a JSON value: its type t and, in the field of that type, what it holds
\* (the other fields stay at their defaults)
JValue(t, s, n, b, items, entries) ==
    [t |-> t, s |-> s, n |-> n, b |-> b, items |-> items, entries |-> entries]

JNull == JValue("null", "", 0, FALSE, <<>>, {})

JStr(s) == JValue("str", s, 0, FALSE, <<>>, {})

JInt(n) == JValue("int", "", n, FALSE, <<>>, {})

JBool(b) == JValue("bool", "", 0, b, <<>>, {})

JList(items) == JValue("list", "", 0, FALSE, items, {})

\* a JSON object, given as the function from its keys to their values (<<>> for
\* no key at all) and kept as the set of its (key, value) entries
JDict(map) == JValue("dict", "", 0, FALSE, <<>>, { << k, map[k] >> : k \in DOMAIN map })

\* key in value
HasKey(value, key) == value.t = "dict" /\ \E e \in value.entries : e[1] = key

\* value.get(key): None when the value is not an object or lacks the key
DictGet(value, key) ==
    IF value.t = "dict" /\ \E e \in value.entries : e[1] = key
    THEN (CHOOSE e \in value.entries : e[1] = key)[2]
    ELSE JNull

\* value[key] = item
DictPut(value, key, item) ==
    [value EXCEPT !.entries = { e \in @ : e[1] # key } \cup { << key, item >> }]

\* bool(value): Python truthiness
Truthy(value) ==
    CASE value.t = "null" -> FALSE
      [] value.t = "str"  -> value.s # ""
      [] value.t = "int"  -> value.n # 0
      [] value.t = "bool" -> value.b
      [] value.t = "list" -> value.items # <<>>
      [] value.t = "dict" -> value.entries # {}

\* a or b
Either(a, b) == IF Truthy(a) THEN a ELSE b

\* str.strip() and str.lower() on the texts the inputs use
Strip(s) ==
    CASE s = " " -> ""
      [] s = " Lisboa " -> "Lisboa"
      [] OTHER -> s

Lower(s) ==
    CASE s = "Lisboa" -> "lisboa"
      [] s = "LISBOA" -> "lisboa"
      [] s = "True" -> "true"
      [] s = "False" -> "false"
      [] s = "V" -> "v"
      [] OTHER -> s

\* _is_nonempty_answer(value)
_is_nonempty_answer(value) ==
    CASE value.t = "null" -> FALSE
      [] value.t = "str"  -> Strip(value.s) # ""
      [] value.t = "list" -> value.items # <<>>
      [] value.t = "dict" -> value.entries # {}
      [] OTHER -> TRUE

\* _to_string(value) of a scalar: None stays None, everything else goes
\* through str()
_to_string(value) ==
    CASE value.t = "null" -> JNull
      [] value.t = "str"  -> value
      [] value.t = "int"  -> JStr(ToString(value.n))
      [] value.t = "bool" -> JStr(IF value.b THEN "True" ELSE "False")

\* _to_bool(value): a bool, or None when the value is neither a bool nor one
\* of the accepted words
_to_bool(value) ==
    IF value.t = "bool" THEN value
    ELSE IF value.t = "str"
    THEN IF Lower(Strip(value.s)) \in { "true", "1", "yes" } THEN JBool(TRUE)
         ELSE IF Lower(Strip(value.s)) \in { "false", "0", "no" } THEN JBool(FALSE)
         ELSE JNull
    ELSE JNull

\* _extract_answers(payload): the "answers" object of the payload when it has
\* one, else the payload itself
_extract_answers(payload) ==
    IF payload.t # "dict" THEN JDict(<<>>)
    ELSE IF DictGet(payload, "answers").t = "dict" THEN DictGet(payload, "answers")
    ELSE payload

\* the strings that occur as ids in the inputs, in the order sorted() puts them
\* (by code point: digits, then upper case, then lower case)
IdsInCodePointOrder == << "1", "2", "A", "B", "C", "L1", "L2", "R1", "R2" >>

\* _normalize_id_list(value, preserve_order=...) that keeps the submitted order
\* and the duplicates in both modes
_normalize_id_list_in_order(value, preserve_order) ==
    LET inner == IF value.t = "dict"
                 THEN Either(DictGet(value, "value"),
                             Either(DictGet(value, "selected"), DictGet(value, "order")))
                 ELSE value
        Kept(raw) == SelectSeq(raw, Truthy)
        Strings(kept) == [i \in DOMAIN kept |-> kept[i].s]
    IN  IF inner.t # "list" THEN <<>>
        ELSE Strings(Kept([i \in DOMAIN inner.items |-> _to_string(inner.items[i])]))

\* _normalize_id_list(value, preserve_order=...): the non-empty ids as strings,
\* in submitted order, or sorted and without duplicates
_normalize_id_list(value, preserve_order) ==
    LET inner == IF value.t = "dict"
                 THEN Either(DictGet(value, "value"),
                             Either(DictGet(value, "selected"), DictGet(value, "order")))
                 ELSE value
        \* [raw for raw in (_to_string(item) for item in value) if raw]
        Kept(raw) == SelectSeq(raw, Truthy)
        Strings(kept) == [i \in DOMAIN kept |-> kept[i].s]
        \* sorted(set(strings))
        Sorted(strings) ==
            SelectSeq(IdsInCodePointOrder, LAMBDA s : \E i \in DOMAIN strings : strings[i] = s)
    IN  IF inner.t # "list" THEN <<>>
        ELSE IF preserve_order
        THEN Strings(Kept([i \in DOMAIN inner.items |-> _to_string(inner.items[i])]))
        ELSE Sorted(Strings(Kept([i \in DOMAIN inner.items |-> _to_string(inner.items[i])])))

\* _normalize_pairs(value): the set of (left, right) string pairs
_normalize_pairs(value) ==
    LET inner == IF HasKey(value, "pairs") THEN DictGet(value, "pairs") ELSE value
        \* the two ends of one entry of a pair list
        Ends(pair) ==
            IF pair.t = "list" /\ Len(pair.items) = 2
            THEN << _to_string(pair.items[1]), _to_string(pair.items[2]) >>
            ELSE IF pair.t = "dict"
            THEN << _to_string(Either(DictGet(pair, "left_id"), DictGet(pair, "left"))),
                    _to_string(Either(DictGet(pair, "right_id"), DictGet(pair, "right"))) >>
            ELSE << JNull, JNull >>
        \* if left and right: pairs.add((left, right))
        Added(left, right) ==
            IF Truthy(left) /\ Truthy(right) THEN { << left.s, right.s >> } ELSE {}
    IN  IF inner.t = "dict"
        THEN UNION { Added(JStr(e[1]), _to_string(e[2])) : e \in inner.entries }
        ELSE IF inner.t = "list"
        THEN UNION { Added(Ends(inner.items[i])[1], Ends(inner.items[i])[2]) :
                       i \in DOMAIN inner.items }
        ELSE {}

\* _grade_question(question, answer_entry): Some(TRUE), Some(FALSE), or None
\* when the question cannot be graded
_grade_question(question, answer_entry) ==
    LET content == Either(DictGet(question, "content"), JDict(<<>>))
        answer_value == IF HasKey(answer_entry, "value") THEN DictGet(answer_entry, "value")
                        ELSE answer_entry
        question_type == DictGet(question, "type")
        \* the dict a loop of d[KeyOf(item)] = ValueOf(item) over the dict
        \* items leaves, for the items where both are non-empty: the last
        \* entry of a key wins
        LastWins(items, KeyOf(_), ValueOf(_)) ==
            [k \in { KeyOf(items[i]).s :
                       i \in { j \in DOMAIN items : /\ items[j].t = "dict"
                                                    /\ Truthy(KeyOf(items[j]))
                                                    /\ Truthy(ValueOf(items[j])) } } |->
                ValueOf(items[CHOOSE i \in DOMAIN items :
                                 /\ items[i].t = "dict"
                                 /\ Truthy(KeyOf(items[i])) /\ Truthy(ValueOf(items[i]))
                                 /\ KeyOf(items[i]).s = k
                                 /\ \A j \in DOMAIN items :
                                       (/\ items[j].t = "dict"
                                        /\ Truthy(KeyOf(items[j])) /\ Truthy(ValueOf(items[j]))
                                        /\ KeyOf(items[j]).s = k) => j <= i]).s]
        BlankId(blank) == _to_string(DictGet(blank, "id"))
        CorrectId(blank) == _to_string(DictGet(blank, "correct_answer"))
        ItemBlankId(item) == _to_string(Either(DictGet(item, "id"), DictGet(item, "blank_id")))
        ItemSelected(item) ==
            _to_string(Either(DictGet(item, "selected_option_id"),
                              Either(DictGet(item, "answer"), DictGet(item, "value"))))
        \* selected_by_blank, from a list of per-blank items or from a dict
        SelectedByBlank(source) ==
            IF source.t = "list" THEN LastWins(source.items, ItemBlankId, ItemSelected)
            ELSE IF source.t = "dict"
            THEN [k \in { e[1] : e \in { x \in source.entries :
                                            x[1] # "" /\ Truthy(_to_string(x[2])) } } |->
                     _to_string(DictGet(source, k)).s]
            ELSE <<>>
        AllBlanksMatch(correct_by_blank, selected_by_blank) ==
            IF DOMAIN correct_by_blank = {} THEN None
            ELSE Some(\A blank_id \in DOMAIN correct_by_blank :
                         /\ blank_id \in DOMAIN selected_by_blank
                         /\ selected_by_blank[blank_id] = correct_by_blank[blank_id])
        \* str(ans).strip(), lowered unless case sensitive
        Normal(text, case_sensitive) ==
            IF case_sensitive THEN Strip(text) ELSE Lower(Strip(text))
        IsOneOf(selected, correct_answers, case_sensitive) ==
            \E i \in DOMAIN correct_answers :
                /\ _is_nonempty_answer(correct_answers[i])
                /\ Normal(_to_string(correct_answers[i]).s, case_sensitive) = selected
        SameOrNone(correct, selected) == IF correct = <<>> THEN None ELSE Some(selected = correct)
        SamePairsOrNone(correct, selected) == IF correct = {} THEN None ELSE Some(selected = correct)
    IN  IF question_type = JStr("multiple_choice")
        THEN IF ~Truthy(_to_string(DictGet(content, "correct_answer"))) THEN None
             ELSE Some(_to_string(IF answer_value.t = "dict"
                                  THEN Either(DictGet(answer_value, "selected_option_id"),
                                              DictGet(answer_value, "option_id"))
                                  ELSE answer_value)
                       = _to_string(DictGet(content, "correct_answer")))
        ELSE IF question_type = JStr("true_false")
        THEN IF _to_bool(DictGet(content, "correct_answer")) = JNull THEN None
             ELSE Some(_to_bool(answer_value) = _to_bool(DictGet(content, "correct_answer")))
        ELSE IF question_type = JStr("fill_blank")
        THEN IF DictGet(content, "blanks").t # "list" \/ DictGet(content, "blanks").items = <<>>
             THEN None
             ELSE AllBlanksMatch(LastWins(DictGet(content, "blanks").items, BlankId, CorrectId),
                                 SelectedByBlank(IF HasKey(answer_value, "blanks")
                                                 THEN DictGet(answer_value, "blanks")
                                                 ELSE answer_value))
        ELSE IF question_type = JStr("matching")
        THEN SamePairsOrNone(_normalize_pairs(DictGet(content, "correct_pairs")),
                             _normalize_pairs(answer_value))
        ELSE IF question_type = JStr("short_answer")
        THEN IF \/ DictGet(content, "correct_answers").t # "list"
                \/ DictGet(content, "correct_answers").items = <<>>
             THEN None
             ELSE Some(IsOneOf(Normal(Either(_to_string(IF answer_value.t = "dict"
                                                        THEN DictGet(answer_value, "text")
                                                        ELSE answer_value),
                                             JStr("")).s,
                                      Truthy(DictGet(content, "case_sensitive"))),
                               DictGet(content, "correct_answers").items,
                               Truthy(DictGet(content, "case_sensitive"))))
        ELSE IF question_type = JStr("multiple_response")
        THEN SameOrNone(_normalize_id_list(DictGet(content, "correct_answers"), FALSE),
                        _normalize_id_list(answer_value, FALSE))
        ELSE IF question_type = JStr("ordering")
        THEN SameOrNone(_normalize_id_list(DictGet(content, "correct_order"), TRUE),
                        _normalize_id_list(answer_value, TRUE))
        ELSE None

\* str(value) of a scalar
StrOf(value) == IF value.t = "null" THEN "None" ELSE _to_string(value).s

\* _deterministic_id(question_id, namespace, discriminator)
_deterministic_id(question_id, namespace, discriminator) ==
    question_id \o "__" \o namespace \o "_" \o StrOf(discriminator)

\* the concatenation of the lists of a list
RECURSIVE Concat(_)
Concat(lists) == IF lists = <<>> THEN <<>> ELSE Head(lists) \o Concat(Tail(lists))

\* _normalize_question_for_grading(question): the question with its content
\* rewritten from the label-based form (content.solution) into the id-based
\* form that _grade_question reads
_normalize_question_for_grading(question) ==
    LET content == Either(DictGet(question, "content"), JDict(<<>>))
        q_type == DictGet(question, "type")
        q_id == Either(_to_string(DictGet(question, "id")), JStr("")).s
        solution == DictGet(content, "solution")
        \* question["content"] = content
        Store(new_content) == DictPut(question, "content", new_content)
        \* content.get(key) or []
        ListAt(key) == Either(DictGet(content, key), JList(<<>>))
        \* one entry of a list as a dict that carries an id:
        \* item = dict(item) if isinstance(item, dict) else {"text": str(item)};
        \* item["id"] = _deterministic_id(q_id, namespace, <discriminator>) if it has none
        AsDict(item) == IF item.t = "dict" THEN item ELSE JDict([text |-> JStr(StrOf(item))])
        WithId(item, namespace, discriminator) ==
            IF Truthy(DictGet(item, "id")) THEN item
            ELSE DictPut(item, "id", JStr(_deterministic_id(q_id, namespace, discriminator)))
        LabelOr(item, default) == IF HasKey(item, "label") THEN DictGet(item, "label") ELSE default
        \* the entries of a list, each with an id (idx counts from 0)
        ItemsWithIds(namespace, raw) ==
            [i \in DOMAIN raw |->
                WithId(AsDict(raw[i]), namespace, LabelOr(AsDict(raw[i]), JInt(i - 1)))]
        \* str(item.get("label", ""))
        LabelOf(item) == StrOf(LabelOr(item, JStr("")))
        HasLabel(items, label) == \E i \in DOMAIN items : LabelOf(items[i]) = label
        \* next((i["id"] for i in items if str(i.get("label", "")) == label), None)
        IdByLabel(items, label) ==
            IF ~HasLabel(items, label) THEN JNull
            ELSE DictGet(items[CHOOSE i \in DOMAIN items :
                                  /\ LabelOf(items[i]) = label
                                  /\ \A j \in DOMAIN items : LabelOf(items[j]) = label => i <= j],
                         "id")
        Labels(values) == { StrOf(values[j]) : j \in DOMAIN values }
        IdsOf(items) == [i \in DOMAIN items |-> DictGet(items[i], "id")]
        \* re.match(r"^\d+$", label) on the labels the inputs use
        IsDigits(label) == label \in { "1", "2" }
        IsNumbered(item) == IsDigits(LabelOf(item))
        IsLettered(item) == ~IsDigits(LabelOf(item))

        \* multiple_choice
        Choice(options) ==
            IF /\ ~Truthy(DictGet(content, "correct_answer"))
               /\ solution # JNull
               /\ HasLabel(options, StrOf(solution))
            THEN Store(DictPut(DictPut(content, "options", JList(options)),
                               "correct_answer", IdByLabel(options, StrOf(solution))))
            ELSE Store(DictPut(content, "options", JList(options)))

        \* multiple_response
        Response(options) ==
            IF ~Truthy(DictGet(content, "correct_answers")) /\ solution.t = "list"
            THEN Store(DictPut(DictPut(content, "options", JList(options)),
                               "correct_answers",
                               JList(IdsOf(SelectSeq(options,
                                       LAMBDA o : LabelOf(o) \in Labels(solution.items))))))
            ELSE Store(DictPut(content, "options", JList(options)))

        \* ordering
        Ordering(items) ==
            IF ~Truthy(DictGet(content, "correct_order")) /\ solution.t = "list"
            THEN Store(DictPut(DictPut(content, "items", JList(items)),
                               "correct_order",
                               JList(SelectSeq([j \in DOMAIN solution.items |->
                                                   IdByLabel(items, StrOf(solution.items[j]))],
                                               Truthy))))
            ELSE Store(DictPut(content, "items", JList(items)))

        \* matching: the (left, right) labels of one entry of the solution, or <<>>
        PairLabels(pair) ==
            IF pair.t = "dict"
            THEN << (IF HasKey(pair, "left") THEN StrOf(DictGet(pair, "left")) ELSE ""),
                    (IF HasKey(pair, "right") THEN StrOf(DictGet(pair, "right")) ELSE "") >>
            ELSE IF pair.t = "list" /\ Len(pair.items) = 2
            THEN << StrOf(pair.items[1]), StrOf(pair.items[2]) >>
            ELSE <<>>
        PairsOf(found, left_items, right_items) ==
            [k \in DOMAIN found |->
                JList(<< IdByLabel(left_items, PairLabels(found[k])[1]),
                         IdByLabel(right_items, PairLabels(found[k])[2]) >>)]
        Matching(left_items, right_items) ==
            IF ~Truthy(DictGet(content, "correct_pairs")) /\ solution.t = "list"
            THEN Store(DictPut(DictPut(DictPut(content, "left_items", JList(left_items)),
                                       "right_items", JList(right_items)),
                               "correct_pairs",
                               JList(PairsOf(SelectSeq(solution.items,
                                                LAMBDA pair :
                                                   /\ PairLabels(pair) # <<>>
                                                   /\ HasLabel(left_items, PairLabels(pair)[1])
                                                   /\ HasLabel(right_items, PairLabels(pair)[2])),
                                             left_items, right_items))))
            ELSE Store(DictPut(DictPut(content, "left_items", JList(left_items)),
                               "right_items", JList(right_items)))
        \* the options split by their label when no side is given
        Split == /\ ~Truthy(DictGet(content, "left_items"))
                 /\ ~Truthy(DictGet(content, "right_items"))
                 /\ DictGet(content, "options").t = "list"

        \* fill_blank, options already flat: options and blanks get ids
        FlatOptions(raw_options) ==
            [i \in DOMAIN raw_options |->
                WithId(raw_options[i], "fopt",
                       IF HasKey(raw_options[i], "text") THEN DictGet(raw_options[i], "text")
                       ELSE LabelOr(raw_options[i], JInt(i - 1)))]
        BlanksWithIds(blanks) ==
            [i \in DOMAIN blanks |-> WithId(blanks[i], "blank", JInt(i - 1))]
        \* fill_blank, label-based: answer_text of one entry of the solution,
        \* str(sol.get("answer") if isinstance(sol, dict) else sol or "")
        AnswerText(sol) ==
            IF sol.t = "dict" THEN StrOf(DictGet(sol, "answer"))
            ELSE IF Truthy(sol) THEN StrOf(sol) ELSE ""
        TextsOf(values) == [i \in DOMAIN values |-> StrOf(values[i])]
        \* the texts handed to _add_opt, in order: the solution's, then the
        \* per-blank option lists'
        OfferedTexts(solutions, raw_options) ==
            [i \in DOMAIN solutions |-> AnswerText(solutions[i])]
            \o (IF raw_options # <<>> /\ raw_options[1].t = "list"
                THEN Concat([i \in DOMAIN raw_options |->
                               IF raw_options[i].t = "list" THEN TextsOf(raw_options[i].items)
                               ELSE <<>>])
                ELSE <<>>)
        \* flat_options: one option per distinct non-empty text, first come first
        OptionsAt(texts, firsts) ==
            [k \in DOMAIN firsts |->
                JDict([id |-> JStr(_deterministic_id(q_id, "fopt", JStr(texts[firsts[k]]))),
                       text |-> JStr(texts[firsts[k]])])]
        AddedOptions(texts) ==
            OptionsAt(texts, SelectSeq([i \in DOMAIN texts |-> i],
                                       LAMBDA i : /\ texts[i] # ""
                                                  /\ \A j \in 1..(i - 1) : texts[j] # texts[i]))
        \* blanks: the id of blank idx and opt_map.get(answer_text, "")
        BlanksFromSolution(solutions) ==
            [i \in DOMAIN solutions |->
                JDict([id |-> JStr(_deterministic_id(q_id, "blank", JInt(i - 1))),
                       correct_answer |->
                           JStr(IF AnswerText(solutions[i]) = "" THEN ""
                                ELSE _deterministic_id(q_id, "fopt",
                                                       JStr(AnswerText(solutions[i]))))])]
        FillBlank(solutions, raw_options) ==
            IF /\ raw_options # <<>>
               /\ raw_options[1].t = "dict"
               /\ Truthy(DictGet(raw_options[1], "id"))
            THEN Store(DictPut(DictPut(content, "options", JList(FlatOptions(raw_options))),
                               "blanks", JList(BlanksWithIds(ListAt("blanks").items))))
            ELSE Store(DictPut(DictPut(content, "options",
                                       JList(AddedOptions(OfferedTexts(solutions, raw_options)))),
                               "blanks", JList(BlanksFromSolution(solutions))))
    IN  IF q_type = JStr("multiple_choice")
        THEN Choice(ItemsWithIds("opt", ListAt("options").items))
        ELSE IF q_type = JStr("multiple_response")
        THEN Response(ItemsWithIds("opt", ListAt("options").items))
        ELSE IF q_type = JStr("ordering")
        THEN Ordering(ItemsWithIds("item", Either(DictGet(content, "items"),
                                                  ListAt("options")).items))
        ELSE IF q_type = JStr("matching")
        THEN Matching(ItemsWithIds("left",
                         IF Split THEN SelectSeq(DictGet(content, "options").items, IsLettered)
                         ELSE ListAt("left_items").items),
                      ItemsWithIds("right",
                         IF Split THEN SelectSeq(DictGet(content, "options").items, IsNumbered)
                         ELSE ListAt("right_items").items))
        ELSE IF q_type = JStr("fill_blank")
        THEN FillBlank(IF Either(solution, JList(<<>>)).t = "list"
                       THEN Either(solution, JList(<<>>)).items ELSE <<>>,
                       ListAt("options").items)
        ELSE IF q_type = JStr("true_false")
        THEN (IF DictGet(content, "correct_answer") = JNull /\ solution # JNull
              THEN Store(DictPut(content, "correct_answer",
                                 JBool(\/ solution = JBool(TRUE) \/ solution = JInt(1)
                                       \/ solution = JStr("true") \/ solution = JStr("V"))))
              ELSE Store(content))
        ELSE IF q_type = JStr("short_answer")
        THEN (IF ~Truthy(DictGet(content, "correct_answers")) /\ solution # JNull
              THEN Store(DictPut(content, "correct_answers", JList(<< JStr(StrOf(solution)) >>)))
              ELSE Store(content))
        ELSE Store(content)

\* _grade_quiz_attempt that counts the questions that cannot be graded as
\* incorrect instead of leaving them out
_grade_quiz_attempt_counting_ungraded(questions, attempt_payload) ==
    LET answers == _extract_answers(attempt_payload)
        IdOf(question) == _to_string(DictGet(question, "id"))
        AnswerTo(question) == DictGet(answers, IdOf(question).s)
        HasId(question) == Truthy(IdOf(question))
        IsAnswered(question) == _is_nonempty_answer(AnswerTo(question))
        IsCorrect(question) == _grade_question(question, AnswerTo(question)) = Some(TRUE)
        Report(identified, gradable) ==
            IF gradable = <<>> THEN None
            ELSE Some([score |-> PyRound(Len(SelectSeq(gradable, IsCorrect)) * 10000,
                                         Len(gradable)),
                       total_questions |-> Len(gradable),
                       correct_questions |-> Len(SelectSeq(gradable, IsCorrect)),
                       answered_questions |-> Len(SelectSeq(identified, IsAnswered)),
                       results |-> [i \in DOMAIN gradable |->
                                       [question_id |-> IdOf(gradable[i]).s,
                                        type |-> DictGet(gradable[i], "type"),
                                        is_correct |-> IsCorrect(gradable[i]),
                                        answered |-> IsAnswered(gradable[i])]]])
        Grade(identified) == Report(identified, identified)
    IN  IF questions = <<>> THEN None
        ELSE Grade(SelectSeq([i \in DOMAIN questions |->
                                 _normalize_question_for_grading(questions[i])], HasId))

\* _grade_quiz_attempt(questions, attempt_payload): None for (None, None), else
\* the grading with its score in hundredths of a point
_grade_quiz_attempt(questions, attempt_payload) ==
    LET answers == _extract_answers(attempt_payload)
        IdOf(question) == _to_string(DictGet(question, "id"))
        \* answers.get(question_id)
        AnswerTo(question) == DictGet(answers, IdOf(question).s)
        HasId(question) == Truthy(IdOf(question))
        IsAnswered(question) == _is_nonempty_answer(AnswerTo(question))
        IsGradable(question) == ~IsNone(_grade_question(question, AnswerTo(question)))
        IsCorrect(question) == _grade_question(question, AnswerTo(question)) = Some(TRUE)
        \* the result, from the questions with an id and those of them that
        \* _grade_question can grade
        Report(identified, gradable) ==
            IF gradable = <<>> THEN None
            ELSE Some([score |-> PyRound(Len(SelectSeq(gradable, IsCorrect)) * 10000,
                                         Len(gradable)),
                       total_questions |-> Len(gradable),
                       correct_questions |-> Len(SelectSeq(gradable, IsCorrect)),
                       answered_questions |-> Len(SelectSeq(identified, IsAnswered)),
                       results |-> [i \in DOMAIN gradable |->
                                       [question_id |-> IdOf(gradable[i]).s,
                                        type |-> DictGet(gradable[i], "type"),
                                        is_correct |-> IsCorrect(gradable[i]),
                                        answered |-> IsAnswered(gradable[i])]]])
        Grade(identified) == Report(identified, SelectSeq(identified, IsGradable))
    IN  IF questions = <<>> THEN None
        ELSE Grade(SelectSeq([i \in DOMAIN questions |->
                                 _normalize_question_for_grading(questions[i])], HasId))

-----------------------------------------------------------------------------
(* The parts of the state a specification does not use stay as they start *)

CascadeIdle ==
    /\ period_weights = <<>>
    /\ periods = <<>>
    /\ elements = <<>>
    /\ annual = None

DashboardIdle ==
    /\ settings = None
    /\ enrollments = <<>>
    /\ annual_grades = <<>>
    /\ cfds = <<>>
    /\ snapshots = <<>>
    /\ body = None

CfsValueIdle ==
    /\ cfs_args = None
    /\ cfs_result = None

SettingsIdle ==
    /\ grade_settings = <<>>
    /\ year_enrollments = <<>>

QuizIdle ==
    /\ quiz_args = None
    /\ quiz_result = None

CallIdle ==
    /\ pc = None
    /\ local = None
    /\ student_assignment = None

-----------------------------------------------------------------------------
(* Specification of the period cascade: one enrollment as create_settings   *)
(* or create_enrollment leaves it, then any sequence of period operations.  *)

CascadeInit ==
    /\ period_weights \in PeriodWeightChoices
    /\ periods = [n \in 1..Len(period_weights) |-> EmptyPeriod]
    /\ elements = [n \in 1..Len(period_weights) |-> <<>>]
    /\ annual = None

Init ==
    /\ CascadeInit
    /\ ret = Result("create_settings", 0, 200)
    /\ DashboardIdle
    /\ CfsValueIdle
    /\ SettingsIdle
    /\ QuizIdle
    /\ CallIdle

UpdatePeriodGrade ==
    /\ \E p \in Periods : \E g \in OptionalOf(PautaInputs) : update_period_grade(p, g)
    /\ UNCHANGED <<dashboardVars, cfsValueVars, settingsVars, quizVars, callVars>>

OverridePeriodGrade ==
    /\ \E p \in Periods : \E g \in PautaInputs : override_period_grade(p, g)
    /\ UNCHANGED <<dashboardVars, cfsValueVars, settingsVars, quizVars, callVars>>

ReplaceElements ==
    /\ \E p \in Periods : \E payload \in ElementPayloads : replace_elements(p, payload)
    /\ UNCHANGED <<dashboardVars, cfsValueVars, settingsVars, quizVars, callVars>>

UpdateElementGrade ==
    /\ \E p \in Periods : \E i \in 1..MaxElems : \E g \in OptionalOf(RawGradeInputs) :
           update_element_grade(p, i, g)
    /\ UNCHANGED <<dashboardVars, cfsValueVars, settingsVars, quizVars, callVars>>

CopyElements ==
    /\ \E p \in Periods : copy_elements_to_other_periods(p)
    /\ UNCHANGED <<dashboardVars, cfsValueVars, settingsVars, quizVars, callVars>>

Next ==
    \/ UpdatePeriodGrade
    \/ OverridePeriodGrade
    \/ ReplaceElements
    \/ UpdateElementGrade
    \/ CopyElements

Spec == Init /\ [][Next]_vars

-----------------------------------------------------------------------------
(* The period cascade together with direct entry of the enrollment's annual  *)
(* grade (update_annual_grade accepts any enrolled year).                    *)

UpdateAnnualGradeRow ==
    /\ \E g \in AnnualGradeInputs : update_annual_grade_row(g)
    /\ UNCHANGED <<dashboardVars, cfsValueVars, settingsVars, quizVars, callVars>>

NextAnnual ==
    \/ UpdatePeriodGrade
    \/ OverridePeriodGrade
    \/ ReplaceElements
    \/ UpdateElementGrade
    \/ CopyElements
    \/ UpdateAnnualGradeRow

SpecAnnual == Init /\ [][NextAnnual]_vars

-----------------------------------------------------------------------------
(* The period cascade on an enrollment of a past year: the import created    *)
(* the enrollment with empty periods and wrote its annual grade, marked      *)
(* is_locked (no operation reads that column, so the row is kept without it).*)

InitPastYear ==
    /\ period_weights \in PeriodWeightChoices
    /\ periods = [n \in 1..Len(period_weights) |-> EmptyPeriod]
    /\ elements = [n \in 1..Len(period_weights) |-> <<>>]
    /\ annual \in { Some([raw_annual |-> g * 100, annual_grade |-> g]) :
                      g \in PastYearGradeInputs }
    /\ ret = Result("setup_past_year", 0, 200)
    /\ DashboardIdle
    /\ CfsValueIdle
    /\ SettingsIdle
    /\ QuizIdle
    /\ CallIdle

SpecPastYear == InitPastYear /\ [][Next]_vars

-----------------------------------------------------------------------------
(* Specification of _compute_cfs_value as a function of its arguments *)

InitCfsValue ==
    /\ CfsValueInit
    /\ ret = Result("none", 0, 200)
    /\ CascadeIdle
    /\ DashboardIdle
    /\ SettingsIdle
    /\ QuizIdle
    /\ CallIdle

NextCfsValue == ComputeCfsValue

SpecCfsValue == InitCfsValue /\ [][NextCfsValue]_vars

-----------------------------------------------------------------------------
(* Specification of the CFS dashboard.  It starts where create_settings and  *)
(* setup_past_year leave a student who takes the subject for 1..MaxYears     *)
(* academic years (past-year enrollments are never exam candidates, and the  *)
(* past years carry the annual grades imported with them), before the        *)
(* terminal year has an annual grade; then any sequence of dashboard-level   *)
(* operations.                                                               *)

InitDashboard ==
    /\ settings \in { Some([education_level |-> l, graduation_cohort_year |-> c]) :
                        l \in EducationLevels, c \in DashboardCohorts }
    /\ \E k \in 1..MaxYears : \E f \in BOOLEAN :
          /\ enrollments = [y \in 1..k |-> [is_exam_candidate |-> (y = k /\ f)]]
          /\ \E g \in PastYearGradeInputs :
                annual_grades = [y \in 1..k |-> IF y < k THEN Some(g) ELSE None]
          /\ cfds = [y \in 1..k |-> None]
          /\ snapshots = [y \in 1..k |-> None]
    /\ body = None
    /\ ret = Result("setup_past_year", 0, 200)
    /\ CascadeIdle
    /\ CfsValueIdle
    /\ SettingsIdle
    /\ QuizIdle
    /\ CallIdle

CreateSettings ==
    /\ \E l \in EducationLevels : \E c \in DashboardCohorts : create_settings(l, c)
    /\ UNCHANGED <<cascadeVars, cfsValueVars, settingsVars, quizVars, callVars>>

UpdateEnrollment ==
    /\ \E f \in BOOLEAN : update_enrollment(TerminalYear, f)
    /\ UNCHANGED <<cascadeVars, cfsValueVars, settingsVars, quizVars, callVars>>

UpdateAnnualGrade ==
    /\ \E y \in 1..Len(enrollments) : \E g \in AnnualGradeInputs : update_annual_grade(y, g)
    /\ UNCHANGED <<cascadeVars, cfsValueVars, settingsVars, quizVars, callVars>>

GetCfsDashboard ==
    /\ get_cfs_dashboard
    /\ UNCHANGED <<cascadeVars, cfsValueVars, settingsVars, quizVars, callVars>>

UpdateExamGrade ==
    /\ \E k \in DOMAIN cfds : \E g \in ExamGradeInputs : update_exam_grade(k, g)
    /\ UNCHANGED <<cascadeVars, cfsValueVars, settingsVars, quizVars, callVars>>

UpdateBasicoExamGrade ==
    /\ \E k \in DOMAIN cfds : \E g \in ExamPercentageInputs : update_basico_exam_grade(k, g)
    /\ UNCHANGED <<cascadeVars, cfsValueVars, settingsVars, quizVars, callVars>>

CreateCfsSnapshot ==
    /\ \E written \in SUBSET { TerminalYear } : create_cfs_snapshot(TerminalYear, written)
    /\ UNCHANGED <<cascadeVars, cfsValueVars, settingsVars, quizVars, callVars>>

NextDashboard ==
    \/ CreateSettings
    \/ UpdateEnrollment
    \/ UpdateAnnualGrade
    \/ GetCfsDashboard
    \/ UpdateExamGrade
    \/ UpdateBasicoExamGrade
    \/ CreateCfsSnapshot

SpecDashboard == InitDashboard /\ [][NextDashboard]_vars

-----------------------------------------------------------------------------
(* Specification of the settings table: a student without settings, then any *)
(* sequence of create_settings, setup_past_year and lock_settings calls.      *)

InitSettings ==
    /\ SettingsIdle
    /\ ret = Result("get_settings", 0, 404)
    /\ CascadeIdle
    /\ DashboardIdle
    /\ CfsValueIdle
    /\ QuizIdle
    /\ CallIdle

CreateSettingsForYear ==
    /\ \E year \in SettingsYears : \E regime \in RegimeInputs :
       \E weights \in SettingsWeightInputs : \E enroll \in BOOLEAN :
       \E past \in PastYearInputs :
           create_settings_for_year(year, regime, weights, enroll, past)
    /\ UNCHANGED <<cascadeVars, dashboardVars, cfsValueVars, quizVars, callVars>>

SetupPastYear ==
    /\ \E year \in SettingsYears : \E enroll \in BOOLEAN :
       \E grade \in OptionalOf(PastYearGradeInputs) : setup_past_year(year, enroll, grade)
    /\ UNCHANGED <<cascadeVars, dashboardVars, cfsValueVars, quizVars, callVars>>

LockSettings ==
    /\ \E settings_id \in 1..(Len(grade_settings) + 1) : lock_settings(settings_id)
    /\ UNCHANGED <<cascadeVars, dashboardVars, cfsValueVars, quizVars, callVars>>

NextSettings ==
    \/ CreateSettingsForYear
    \/ SetupPastYear
    \/ LockSettings

SpecSettings == InitSettings /\ [][NextSettings]_vars

-----------------------------------------------------------------------------
(* Specification of _grade_quiz_attempt as a function of its arguments *)

\* most questions of one attempt
MaxQuestions == 2

\* a question of an attempt (its type and stored content) and the answer
\* submitted to it (JNull: no answer)
QuestionInputs ==
    LET Ids(strings) == JList([i \in DOMAIN strings |-> JStr(strings[i])])
        Pairs(pairs) == JList([i \in DOMAIN pairs |-> Ids(pairs[i])])
        Labelled(labels) == JList([i \in DOMAIN labels |-> JDict([label |-> JStr(labels[i])])])
        Answered(type, content, answer) == [type |-> type, content |-> content, answer |-> answer]
    IN  { Answered("ordering", JDict([correct_order |-> Ids(<< "A", "C", "B" >>)]), a) :
            a \in { JNull, JList(<<>>), Ids(<< "A", "C", "B" >>), Ids(<< "C", "A", "B" >>),
                    Ids(<< "A", "", "C", "B" >>),
                    JDict([value |-> JList(<<>>)]) } }
        \cup { Answered("ordering", JDict(<<>>), Ids(<< "A", "C", "B" >>)),
               Answered("ordering",
                        JDict([items |-> Labelled(<< "A", "B" >>), solution |-> Ids(<< "B", "A" >>)]),
                        Ids(<< "q1__item_B", "q1__item_A" >>)) }
        \cup { Answered("multiple_response", JDict([correct_answers |-> Ids(<< "A", "B" >>)]), a) :
                 a \in { JNull, Ids(<< "B", "A" >>), Ids(<< "A", "A", "B" >>),
                         Ids(<< "A" >>), Ids(<< "A", "B", "C" >>), Ids(<< "A", "B", "" >>) } }
        \cup { Answered("multiple_response", JDict(<<>>), Ids(<< "A" >>)) }
        \cup { Answered("matching",
                        JDict([correct_pairs |-> Pairs(<< << "L1", "R1" >>, << "L2", "R2" >> >>)]), a) :
                 a \in { JNull,
                         JDict([L1 |-> JStr("R1"), L2 |-> JStr("R2")]),
                         Pairs(<< << "L2", "R2" >>, << "L1", "R1" >> >>),
                         Pairs(<< << "L1", "R1" >>, << "L2", "R2" >>, << "L1", "R1" >> >>),
                         Pairs(<< << "L1", "R1" >> >>),
                         Pairs(<< << "L1", "R1" >>, << "L2", "R2" >>, << "L1", "R2" >> >>) } }
        \cup { Answered("open_extended", JDict(<<>>), JStr("essay")),
               Answered("context_group", JDict(<<>>), JNull),
               Answered("multiple_choice", JDict([correct_answer |-> JStr("A")]), JStr("B")),
               Answered("true_false", JDict([correct_answer |-> JBool(TRUE)]), JStr("yes")),
               Answered("true_false", JDict([solution |-> JStr("V")]), JBool(FALSE)),
               Answered("short_answer", JDict([correct_answers |-> Ids(<< "Lisboa" >>)]),
                        JStr(" Lisboa ")),
               Answered("fill_blank",
                        JDict([options |-> JList(<< JDict([id |-> JStr("A")]),
                                                    JDict([id |-> JStr("B")]) >>),
                               blanks |-> JList(<< JDict([id |-> JStr("L1"),
                                                          correct_answer |-> JStr("A")]) >>)]),
                        JDict([L1 |-> JStr("A")])),
               Answered("fill_blank", JDict([solution |-> Ids(<< "A" >>)]),
                        JDict([q1__blank_0 |-> JStr("q1__fopt_A")])) }

\* an attempt of up to MaxQuestions questions: question i has the id q<i>, the
\* answers map has one key per question that was answered, and the payload is
\* the answers map itself or carries it under "answers"
QuizInit ==
    LET QuestionId(i) == "q" \o ToString(i)
        QuestionsOf(attempt) ==
            [i \in DOMAIN attempt |->
                JDict([id |-> JStr(QuestionId(i)), type |-> JStr(attempt[i].type),
                       content |-> attempt[i].content])]
        AnswersOf(attempt) ==
            JValue("dict", "", 0, FALSE, <<>>,
                   { << QuestionId(i), attempt[i].answer >> :
                       i \in { j \in DOMAIN attempt : attempt[j].answer # JNull } })
    IN  /\ \E attempt \in ListsUpTo(QuestionInputs, MaxQuestions) :
              \E payload \in { AnswersOf(attempt), JDict([answers |-> AnswersOf(attempt)]) } :
                 quiz_args = Some([questions |-> QuestionsOf(attempt), payload |-> payload])
        /\ quiz_result = None

\* the service grades the submitted attempt
GradeQuizAttempt ==
    /\ IsNone(quiz_result)
    /\ quiz_result' = Some(_grade_quiz_attempt(Get(quiz_args).questions, Get(quiz_args).payload))
    /\ ret' = Result("_grade_quiz_attempt", 0, 200)
    /\ UNCHANGED <<quiz_args, cascadeVars, dashboardVars, cfsValueVars, settingsVars, callVars>>

InitQuiz ==
    /\ QuizInit
    /\ ret = Result("none", 0, 200)
    /\ CascadeIdle
    /\ DashboardIdle
    /\ CfsValueIdle
    /\ SettingsIdle
    /\ CallIdle

NextQuiz == GradeQuizAttempt

SpecQuiz == InitQuiz /\ [][NextQuiz]_vars

-----------------------------------------------------------------------------
(* Two concurrent replace_elements requests on period 1 of the enrollment.  *)
(* Each store operation of the handler (delete, insert, the select and the  *)
(* update of recalculate_period_grade) is one step; the steps of the two    *)
(* requests interleave freely.                                              *)

\* the requests, and the payloads they carry: weights that sum to 100, the
\* first element graded
Callers == { 1, 2 }

ConcurrentPayloads ==
    { PayloadOf(SplitWeights(n), g) : n \in { 1, MaxElems }, g \in { 13, 16 } }

\* db.table("subject_evaluation_elements").delete().eq("period_id", period_id)
DeleteElements ==
    /\ \E c \in Callers :
          /\ pc[c] = "delete"
          /\ elements' = [elements EXCEPT ![1] = <<>>]
          /\ pc' = [pc EXCEPT ![c] = "insert"]
    /\ UNCHANGED <<period_weights, periods, annual, ret, local, student_assignment>>
    /\ UNCHANGED <<dashboardVars, cfsValueVars, settingsVars, quizVars>>

\* db.table("subject_evaluation_elements").insert(rows)
InsertElements ==
    /\ \E c \in Callers :
          /\ pc[c] = "insert"
          /\ elements' = [elements EXCEPT ![1] = @ \o local[c].payload]
          /\ pc' = [pc EXCEPT ![c] = "select"]
    /\ UNCHANGED <<period_weights, periods, annual, ret, local, student_assignment>>
    /\ UNCHANGED <<dashboardVars, cfsValueVars, settingsVars, quizVars>>

\* recalculate_period_grade: the select of the period's elements
SelectElements ==
    /\ \E c \in Callers :
          /\ pc[c] = "select"
          /\ local' = [local EXCEPT ![c].rows = elements[1]]
          /\ pc' = [pc EXCEPT ![c] = "update"]
    /\ UNCHANGED <<cascadeVars, ret, student_assignment>>
    /\ UNCHANGED <<dashboardVars, cfsValueVars, settingsVars, quizVars>>

\* recalculate_period_grade: the update of the period from the rows selected,
\* and its cascade; the request returns
UpdatePeriod ==
    /\ \E c \in Callers :
          /\ pc[c] = "update"
          /\ RecalculateAndCascade(1, local[c].rows)
          /\ pc' = [pc EXCEPT ![c] = "done"]
    /\ ret' = Result("replace_elements", 1, 200)
    /\ UNCHANGED <<period_weights, elements, local, student_assignment>>
    /\ UNCHANGED <<dashboardVars, cfsValueVars, settingsVars, quizVars>>

InitConcurrent ==
    /\ CascadeInit
    /\ pc = [c \in Callers |-> "delete"]
    /\ local \in [Callers -> [payload : ConcurrentPayloads, rows : { <<>> }]]
    /\ student_assignment = None
    /\ ret = Result("create_settings", 0, 200)
    /\ DashboardIdle
    /\ CfsValueIdle
    /\ SettingsIdle
    /\ QuizIdle

NextConcurrent ==
    \/ DeleteElements
    \/ InsertElements
    \/ SelectElements
    \/ UpdatePeriod

SpecConcurrent == InitConcurrent /\ [][NextConcurrent]_vars

-----------------------------------------------------------------------------
(* Specification of update_student_assignment requests on one                *)
(* student_assignment row: the submission request and the autosave requests  *)
(* of the student's client.  The handler's select of the row (with the guard *)
(* on what it read) and its update of the row are two store operations, each *)
(* one step; the steps of the requests interleave freely.  A request that    *)
(* has returned may be followed by another one.                              *)

\* the select of the row and the guard on it; payload is the request's
\* StudentAssignmentUpdateIn (status: in_progress, submitted or absent)
SelectAssignment ==
    \E c \in Callers :
       \E status \in { None, Some("in_progress"), Some("submitted") } :
          \E progress \in { None, Some(JDict([q1 |-> JStr("B")])) } :
          \E submission \in { None, Some(JDict([q1 |-> JStr("A")])) } :
             /\ IsNone(local[c])
             /\ IF /\ Get(student_assignment).status \in { "submitted", "graded" }
                   /\ status = Some("in_progress")
                THEN /\ ret' = Result("update_student_assignment", c, 409)
                     /\ UNCHANGED <<pc, local>>
                ELSE /\ local' = [local EXCEPT ![c] =
                                     Some([payload |-> [status |-> status, progress |-> progress,
                                                        submission |-> submission],
                                           rows |-> Get(student_assignment)])]
                     /\ pc' = [pc EXCEPT ![c] = "update"]
                     /\ UNCHANGED ret
             /\ UNCHANGED student_assignment
             /\ UNCHANGED <<cascadeVars, dashboardVars, cfsValueVars, settingsVars, quizVars>>

\* the update of the row with update_data, built from the payload and the row
\* the request selected; the request returns
UpdateAssignment ==
    \E c \in Callers :
       /\ pc[c] = "update"
       /\ LET \* grading_source
              Source(payload, existing) ==
                  IF ~IsNone(payload.submission) THEN payload.submission
                  ELSE IF payload.status = Some("submitted")
                  THEN IF ~IsNone(existing.submission) /\ Truthy(Get(existing.submission))
                       THEN existing.submission
                       ELSE existing.progress
                  ELSE None
              \* grading of _grade_quiz_attempt(questions, grading_source)
              GradingOf(existing, source) ==
                  IF IsNone(source) THEN None
                  ELSE _grade_quiz_attempt(existing.questions, Get(source))
              \* grading, as the JSON value stored under submission["grading"]
              Grading(report) ==
                  JDict([score |-> JInt(report.score),
                         total_questions |-> JInt(report.total_questions),
                         correct_questions |-> JInt(report.correct_questions),
                         answered_questions |-> JInt(report.answered_questions),
                         results |-> JList([i \in DOMAIN report.results |->
                                        JDict([question_id |-> JStr(report.results[i].question_id),
                                               type |-> report.results[i].type,
                                               is_correct |-> JBool(report.results[i].is_correct),
                                               answered |-> JBool(report.results[i].answered)])])])
              \* the row after .update(update_data)
              Written(row, payload, existing, graded) ==
                  [row EXCEPT
                     !.progress = IF ~IsNone(payload.progress) THEN payload.progress ELSE @,
                     !.submission = IF IsNone(payload.submission) THEN @
                                    ELSE IF IsNone(graded) THEN payload.submission
                                    ELSE Some(DictPut(Get(payload.submission), "grading",
                                                      Grading(Get(graded)))),
                     !.submitted_at = @ \/ ~IsNone(payload.submission)
                                        \/ payload.status = Some("submitted"),
                     !.status = IF IsNone(payload.status) THEN @
                                ELSE IF ~IsNone(graded) /\ payload.status = Some("submitted")
                                THEN "graded"
                                ELSE Get(payload.status),
                     !.started_at = IF payload.status = Some("in_progress")
                                    THEN @ \/ ~existing.started_at ELSE @,
                     !.grade = IF IsNone(graded) THEN @ ELSE Some(Get(graded).score),
                     !.auto_graded = @ \/ ~IsNone(graded),
                     !.graded_at = @ \/ ~IsNone(graded)]
              Request(payload, existing) ==
                  Written(Get(student_assignment), payload, existing,
                          GradingOf(existing, Source(payload, existing)))
          IN  student_assignment' = Some(Request(Get(local[c]).payload, Get(local[c]).rows))
       /\ pc' = [pc EXCEPT ![c] = "select"]
       /\ local' = [local EXCEPT ![c] = None]
       /\ ret' = Result("update_student_assignment", c, 200)
       /\ UNCHANGED <<cascadeVars, dashboardVars, cfsValueVars, settingsVars, quizVars>>

\* the row as create_assignment inserts it (status is the column's default),
\* with the questions of the assignment's artifact: a quiz of one
\* multiple-choice question, or no quiz
InitAssignment ==
    /\ \E questions \in { <<>>, << JDict([id |-> JStr("q1"), type |-> JStr("multiple_choice"),
                                          content |-> JDict([correct_answer |-> JStr("A")])]) >> } :
          student_assignment =
             Some([status |-> "not_started", progress |-> None, submission |-> None,
                   started_at |-> FALSE, submitted_at |-> FALSE, grade |-> None,
                   auto_graded |-> FALSE, graded_at |-> FALSE, questions |-> questions])
    /\ pc = [c \in Callers |-> "select"]
    /\ local = [c \in Callers |-> None]
    /\ ret = Result("create_assignment", 0, 200)
    /\ CascadeIdle
    /\ DashboardIdle
    /\ CfsValueIdle
    /\ SettingsIdle
    /\ QuizIdle

NextAssignment ==
    \/ SelectAssignment
    \/ UpdateAssignment

SpecAssignment == InitAssignment /\ [][NextAssignment]_vars

-----------------------------------------------------------------------------
(* Properties of the period cascade (checked under Spec) *)

\* the sum of f[i] over the finite set S of indices
RECURSIVE SumOver(_, _)
SumOver(S, f) ==
    IF S = {} THEN 0
    ELSE LET i == CHOOSE j \in S : TRUE
         IN  f[i] + SumOver(S \ {i}, f)

\* g is the value n/d rounded to the nearest integer, exact halves away from zero
IsHalfUpOf(g, n, d) ==
    IF n >= 0 THEN 2 * g * d - d <= 2 * n /\ 2 * n < 2 * g * d + d
    ELSE 2 * g * d - d < 2 * n /\ 2 * n <= 2 * g * d + d

\* a period row that only carries the pauta grade g
PeriodWithPauta(g) == [EmptyPeriod EXCEPT !.pauta_grade = g]

\* C1: an AnnualSubjectGrade row exists for the enrollment if and only if every
\* one of its periods has a non-null pauta_grade.
C1_AnnualIffComplete ==
    (~IsNone(annual)) <=> (\A n \in Periods : ~IsNone(periods[n].pauta_grade))

C1_Witness ==
    /\ ~IsNone(annual)
    /\ \A n \in Periods : ~IsNone(periods[n].pauta_grade)
    /\ ret.op = "update_element_grade"
    /\ \E n \in Periods : periods[n].is_overridden

\* C2: whenever an annual grade is stored, raw_annual is the sum over the periods
\* of pauta_grade * period_weights[period_number - 1] / 100 taken from the stored
\* pauta grades, and annual_grade is that value rounded half up; weights
\* [30,30,40] with pauta 14,16,15 give 15, and 12,14,18 give 15 only once the
\* third grade is entered.
C2_AnnualFormula ==
    /\ ~IsNone(annual) =>
         /\ \A n \in Periods : ~IsNone(periods[n].pauta_grade)
         /\ Get(annual).raw_annual =
              SumOver(Periods, [n \in Periods |-> Get(periods[n].pauta_grade) * period_weights[n]])
         /\ IsHalfUpOf(Get(annual).annual_grade, Get(annual).raw_annual, 100)
    /\ Get(_try_recalculate_annual(
              [n \in 1..3 |-> PeriodWithPauta(Some(<<14, 16, 15>>[n]))], <<30, 30, 40>>)).annual_grade = 15
    /\ Get(_try_recalculate_annual(
              [n \in 1..3 |-> PeriodWithPauta(Some(<<12, 14, 18>>[n]))], <<30, 30, 40>>)).annual_grade = 15
    /\ IsNone(_try_recalculate_annual(
              [n \in 1..3 |-> PeriodWithPauta(<<Some(12), Some(14), None>>[n])], <<30, 30, 40>>))

\* an annual grade whose raw value is an exact half (12.5, from 12 and 13 at 50/50)
C2_Witness ==
    /\ ~IsNone(annual)
    /\ Get(annual).raw_annual = 1250
    /\ Get(annual).annual_grade = 13
    /\ ret.status = 200

\* C3: after a recalculation with at least one graded element, raw_calculated is
\* the sum over the graded elements only of raw_grade * weight_percentage / 100,
\* not renormalised by the weights of the ungraded ones, and calculated_grade is
\* that value rounded half up.
C3_PeriodFormula ==
    (/\ ret.op \in {"replace_elements", "update_element_grade"}
     /\ ret.status = 200
     /\ \E i \in DOMAIN elements[ret.target] : ~IsNone(elements[ret.target][i].raw_grade))
    => LET els == elements[ret.target]
           gradedIdx == { i \in DOMAIN els : ~IsNone(els[i].raw_grade) }
           raw == SumOver(gradedIdx,
                          [i \in gradedIdx |-> Get(els[i].raw_grade) * els[i].weight_percentage])
           per == periods[ret.target]
       IN  /\ per.raw_calculated = Some(raw)
           /\ ~IsNone(per.calculated_grade)
           /\ IsHalfUpOf(Get(per.calculated_grade), raw, 100)

\* one graded and one ungraded element of weight 50: 13 * 50 / 100 = 6.5, grade 7
C3_Witness ==
    /\ ret.op \in {"replace_elements", "update_element_grade"}
    /\ ret.status = 200
    /\ ret.target \in Periods
    /\ Len(elements[ret.target]) = 2
    /\ \E i \in 1..2 : IsNone(elements[ret.target][i].raw_grade)
    /\ periods[ret.target].raw_calculated = Some(650)
    /\ periods[ret.target].calculated_grade = Some(7)

\* 9.5 gives 10, 9.49999 gives 9, -0.5 gives -1
RoundingExamples ==
    /\ _round_half_up(95, 10) = 10
    /\ _round_half_up(949999, 100000) = 9
    /\ _round_half_up(0 - 5, 10) = 0 - 1

\* on a grid of decimals of both signs the result is the nearest integer, exact
\* halves away from zero
RoundingGrid ==
    \A d \in { 1, 2, 4, 10, 100 } : \A n \in (0 - 250)..250 :
        IsHalfUpOf(_round_half_up(n, d), n, d)

\* cif_grade and cfd_grade are their raw values rounded by the same rule
DerivedGradesRounded ==
    /\ \A grades \in { <<9, 10>>, <<14, 15>>, <<10, 9, 9>>, <<15, 15, 14>> } :
          LET cif == _compute_cif(grades)
          IN  IsHalfUpOf(cif.cif_grade, cif.cif_raw.num, cif.cif_raw.den)
    /\ \A cif_grade \in { 9, 14 } : \A exam_grade_raw \in { 95, 100, 155 } :
       \A exam_weight \in { 25, 30 } :
          LET cfd == _compute_cfd(cif_grade, Some(exam_grade_raw), Some(exam_weight))
          IN  IsHalfUpOf(cfd.cfd_grade, cfd.cfd_raw.num, cfd.cfd_raw.den)

\* C22: _round_half_up rounds every decimal to the nearest integer with exact
\* halves going away from zero (9.5 gives 10, 9.49999 gives 9, -0.5 gives -1),
\* never to the nearest even integer; every calculated_grade, annual_grade,
\* cif_grade and cfd_grade that is derived from a decimal is that decimal
\* rounded with this rule (a calculated_grade typed in directly through
\* update_period_grade is an integer copied as it is).
C22_HalfAwayFromZero ==
    /\ RoundingExamples
    /\ RoundingGrid
    /\ DerivedGradesRounded
    /\ (/\ ret.op \in { "replace_elements", "update_element_grade" }
        /\ ret.status = 200
        /\ ~IsNone(periods[ret.target].raw_calculated))
          => /\ ~IsNone(periods[ret.target].calculated_grade)
             /\ IsHalfUpOf(Get(periods[ret.target].calculated_grade),
                           Get(periods[ret.target].raw_calculated), 100)
    /\ ~IsNone(annual)
          => IsHalfUpOf(Get(annual).annual_grade, Get(annual).raw_annual, 100)

\* a recalculated grade of 7 from 6.5 and an annual grade of 10 from 9.5
C22_Witness ==
    /\ ret.op \in { "replace_elements", "update_element_grade" }
    /\ ret.status = 200
    /\ periods[ret.target].raw_calculated = Some(650)
    /\ periods[ret.target].calculated_grade = Some(7)
    /\ ~IsNone(annual)
    /\ Get(annual).raw_annual = 950
    /\ Get(annual).annual_grade = 10

-----------------------------------------------------------------------------
(* Properties of _compute_cfs_value (checked under SpecCfsValue) *)

\* the CFDs of the call that count for the CFS, as indices of its list
CfsEligible == { i \in DOMAIN Get(cfs_args).cfds : Get(cfs_args).cfds[i].affects_cfs = TRUE }

\* numerator and denominator of the mean the cohort rule prescribes
CfsMeanNum(weighted) ==
    SumOver(CfsEligible,
            [i \in CfsEligible |->
                Get(cfs_args).cfds[i].cfd_grade
                * (IF weighted THEN Get(cfs_args).cfds[i].duration_years ELSE 1)])

CfsMeanDen(weighted) ==
    SumOver(CfsEligible,
            [i \in CfsEligible |-> IF weighted THEN Get(cfs_args).cfds[i].duration_years ELSE 1])

CfsReturned == ~IsNone(cfs_result) /\ ~IsNone(Get(cfs_result))

CfsCohortKnown == ~IsNone(cfs_args) /\ ~IsNone(Get(cfs_args).cohort_year)

\* C6: only CFDs with affects_cfs true count; for cohort_year >= 2025 the CFS is
\* the duration-weighted mean, for an earlier cohort the unweighted mean (CFDs
\* {16, 3 years} and {12, 1 year}: cohort 2026 gives 15.0 and DGES 150, cohort
\* 2024 gives 14.0 and DGES 140).
C6_CfsMean ==
    /\ (~IsNone(cfs_result) /\ CfsCohortKnown) =>
          LET weighted == Get(Get(cfs_args).cohort_year) >= 2025
          IN  IF CfsEligible = {} THEN IsNone(Get(cfs_result))
              ELSE /\ ~IsNone(Get(cfs_result))
                   /\ Get(Get(cfs_result)).cfs_value
                        = (10 * CfsMeanNum(weighted)) \div CfsMeanDen(weighted)
    /\ LET two == << [cfd_grade |-> 16, duration_years |-> 3, affects_cfs |-> TRUE],
                     [cfd_grade |-> 12, duration_years |-> 1, affects_cfs |-> TRUE] >>
       IN  /\ _compute_cfs_value(two, Some(2026)) = Some([cfs_value |-> 150, dges_value |-> 150])
           /\ _compute_cfs_value(two, Some(2024)) = Some([cfs_value |-> 140, dges_value |-> 140])

\* a weighted cohort and two counted CFDs whose weighted and unweighted means differ
C6_Witness ==
    /\ CfsReturned
    /\ CfsCohortKnown
    /\ Get(Get(cfs_args).cohort_year) >= 2025
    /\ Cardinality(CfsEligible) = 2
    /\ CfsMeanNum(TRUE) * CfsMeanDen(FALSE) # CfsMeanNum(FALSE) * CfsMeanDen(TRUE)

\* C7: cfs_value is the mean truncated, never rounded, to one decimal place
\* (cfs_value <= cfs_raw < cfs_value + 0.1; 14.68 gives 14.6), and dges_value is
\* the integer 10 * cfs_value, within 0..200 for grades within 0..20.
C7_Truncation ==
    /\ CfsReturned =>
          LET weighted == UseWeighted(Get(cfs_args).cohort_year)
              num == CfsMeanNum(weighted)
              den == CfsMeanDen(weighted)
              out == Get(Get(cfs_result))
          IN  /\ out.cfs_value * den <= 10 * num
              /\ 10 * num < (out.cfs_value + 1) * den
              /\ out.dges_value = out.cfs_value
              /\ out.dges_value \in 0..200
    /\ _truncate_one_decimal(1468, 100) = 146

\* a mean of 15.75 (16 over 3 years, 15 over 1): truncated to 15.7, not 15.8
C7_Witness ==
    /\ CfsReturned
    /\ UseWeighted(Get(cfs_args).cohort_year)
    /\ 4 * CfsMeanNum(TRUE) = 63 * CfsMeanDen(TRUE)
    /\ Get(Get(cfs_result)).cfs_value = 157
    /\ Get(Get(cfs_result)).dges_value = 157

-----------------------------------------------------------------------------
(* Properties of the CFS dashboard (checked under SpecDashboard) *)

\* the stored CFD row of the subject's terminal year, when the dashboard ran last
AfterDashboard ==
    /\ ret.op = "get_cfs_dashboard"
    /\ ~IsNone(settings)
    /\ ~IsNone(cfds[TerminalYear])

TerminalCfd == Get(cfds[TerminalYear])

\* the Decimal q equals n/d
FracIs(q, n, d) == q.num * d = n * q.den

\* the row holds an exam score of an exam candidate and is open to recomputation
ScoredOpenCandidate ==
    /\ ~TerminalCfd.is_finalized
    /\ enrollments[TerminalYear].is_exam_candidate
    /\ ~IsNone(TerminalCfd.exam_grade_raw)

\* C4: secondary level, exam score on an unfinalized CFD of an exam candidate:
\* exam_weight is 25 for cohort >= 2023, else 25 for a 2-year subject and 30
\* otherwise; cfd_raw = (cif_grade*(100-w) + (exam_grade_raw/10)*w)/100 with the
\* exam term unrounded, cfd_grade its half-up rounding (cohort 2022, 3 years,
\* CIF 14, exam 160: weight 30, 14.6, 15; cohort 2024: weight 25, 14.5, 15).
C4_SecondaryCfd ==
    /\ (/\ AfterDashboard
        /\ Get(settings).education_level = "secundario"
        /\ ~IsNone(Get(settings).graduation_cohort_year)
        /\ ScoredOpenCandidate)
       => LET cohort == Get(Get(settings).graduation_cohort_year)
              w == IF cohort >= 2023 THEN 25
                   ELSE IF Len(enrollments) = 2 THEN 25 ELSE 30
              n == TerminalCfd.cif_grade * (100 - w) * 10
                   + Get(TerminalCfd.exam_grade_raw) * w
          IN  /\ TerminalCfd.exam_weight = Some(w)
              /\ FracIs(TerminalCfd.cfd_raw, n, 1000)
              /\ IsHalfUpOf(TerminalCfd.cfd_grade, n, 1000)
    /\ ExamWeight(Some(2022), 3) = 30
    /\ _compute_cfd(14, Some(160), Some(30)) = [cfd_raw |-> [num |-> 73, den |-> 5], cfd_grade |-> 15]
    /\ ExamWeight(Some(2024), 3) = 25
    /\ _compute_cfd(14, Some(160), Some(25)) = [cfd_raw |-> [num |-> 29, den |-> 2], cfd_grade |-> 15]

\* the spec's first example, as a state of the store
C4_Witness ==
    /\ AfterDashboard
    /\ Get(settings).education_level = "secundario"
    /\ Get(settings).graduation_cohort_year = Some(2022)
    /\ Len(enrollments) = 3
    /\ ScoredOpenCandidate
    /\ TerminalCfd.cif_grade = 14
    /\ TerminalCfd.exam_grade_raw = Some(160)
    /\ TerminalCfd.exam_weight = Some(30)
    /\ TerminalCfd.cfd_raw = [num |-> 73, den |-> 5]
    /\ TerminalCfd.cfd_grade = 15

\* level(p) of the Prova Final percentage p
ExamLevel(p) ==
    CHOOSE l \in 1..5 :
        /\ (l = 5) <=> (p >= 90)
        /\ (l = 4) <=> (p >= 70 /\ p < 90)
        /\ (l = 3) <=> (p >= 50 /\ p < 70)
        /\ (l = 2) <=> (p >= 20 /\ p < 50)

\* the row carries the básico blend of its own cif_grade and percentage
BasicoBlend(row) ==
    LET n == row.cif_grade * 70 + ExamLevel(Get(row.exam_grade_raw)) * 30
    IN  /\ row.exam_weight = Some(30)
        /\ FracIs(row.cfd_raw, n, 100)
        /\ IsHalfUpOf(row.cfd_grade, n, 100)

\* the conversion agrees with the thresholds on every percentage
LevelThresholdsAgree == \A p \in 0..100 : _convert_percentage_to_level(p) = ExamLevel(p)

\* C5: at basico_3_ciclo, with a national exam, an exam candidate and a stored
\* percentage p in 0..100, the dashboard computes exam_weight 30,
\* cfd_raw = (cif_grade*70 + level(p)*30)/100 and cfd_grade = roundHalfUp(cfd_raw);
\* update_basico_exam_grade stores the same blend of the row's cif_grade and p.
C5_BasicoCfd ==
    /\ (/\ AfterDashboard
        /\ Get(settings).education_level = "basico_3_ciclo"
        /\ SubjectInfo.has_national_exam
        /\ ScoredOpenCandidate
        /\ Get(TerminalCfd.exam_grade_raw) \in 0..100)
       => BasicoBlend(TerminalCfd)
    /\ (ret.op = "update_basico_exam_grade" /\ ret.status = 200)
       => BasicoBlend(Get(cfds[ret.target]))
    /\ LevelThresholdsAgree

\* CIF 14 and 90 percent: level 5, (14*70 + 5*30)/100 = 11.3, grade 11
C5_Witness ==
    /\ AfterDashboard
    /\ Get(settings).education_level = "basico_3_ciclo"
    /\ ScoredOpenCandidate
    /\ TerminalCfd.exam_grade_raw = Some(90)
    /\ TerminalCfd.cif_grade = 14
    /\ TerminalCfd.cfd_raw = [num |-> 113, den |-> 10]
    /\ TerminalCfd.cfd_grade = 11

IsFinalized(row) == ~IsNone(row) /\ Get(row).is_finalized

ExamGradeOps == { "update_exam_grade", "update_basico_exam_grade" }

\* C8: update_exam_grade and update_basico_exam_grade on a finalized CFD fail
\* with a ConflictError (HTTP 409, "CFD is already finalized") and leave every
\* field of the row unchanged.
C8_FinalizedConflict ==
    [][\A k \in DOMAIN cfds :
          (IsFinalized(cfds[k]) /\ ret'.op \in ExamGradeOps /\ ret'.target = k)
          => (ret'.status = 409 /\ cfds'[k] = cfds[k])]_vars

\* what the code does in that case: it rejects the call with HTTP 400 and leaves
\* the row as it is
C8_FinalizedRejected ==
    [][\A k \in DOMAIN cfds :
          (IsFinalized(cfds[k]) /\ ret'.op \in ExamGradeOps /\ ret'.target = k)
          => (ret'.status = 400 /\ cfds'[k] = cfds[k])]_vars

C8_Witness ==
    /\ ret.op \in ExamGradeOps
    /\ ret.status = 400
    /\ IsFinalized(cfds[ret.target])

\* entries of the returned cfds list that belong to the CFD row k
ReturnedFor(k) == { i \in DOMAIN Get(body').cfds : Get(body').cfds[i].id = k }

\* C9: get_cfs_dashboard never writes to a finalized CFD row, whatever has
\* changed since, and returns the stored values of that row.
C9_FinalizedUntouched ==
    [][\A k \in DOMAIN cfds :
          (IsFinalized(cfds[k]) /\ ret'.op \in {"get_cfs_dashboard", "create_cfs_snapshot"})
          => /\ cfds'[k] = cfds[k]
             /\ (ret'.op = "get_cfs_dashboard")
                => \A i \in ReturnedFor(k) : Get(body').cfds[i].row = Get(cfds[k])]_vars

\* the dashboard ran on a finalized row whose recomputation would change it
C9_Witness ==
    /\ AfterDashboard
    /\ TerminalCfd.is_finalized
    /\ ~IsNone(body)
    /\ Get(body).cfds # <<>>
    /\ TerminalCfd # WithFinalized(
                        CfdData(settings, enrollments, annual_grades, cfds[TerminalYear]), TRUE)

\* C10: once a CFD or a CFS snapshot has is_finalized = true, it never has
\* is_finalized = false again.
C10_FinalizedForever ==
    [][/\ \A k \in DOMAIN cfds : IsFinalized(cfds[k]) => IsFinalized(cfds'[k])
       /\ \A y \in DOMAIN snapshots : IsFinalized(snapshots[y]) => IsFinalized(snapshots'[y])]_vars

\* a finalized CFD and snapshot after further settings, grades and a dashboard load
C10_Witness ==
    /\ AfterDashboard
    /\ TerminalCfd.is_finalized
    /\ IsFinalized(snapshots[TerminalYear])
    /\ Get(settings).graduation_cohort_year # Get(snapshots[TerminalYear]).graduation_cohort_year

\* C11: when create_cfs_snapshot returns successfully, every CFD listed in the
\* snapshot's breakdown has is_finalized = true in the store, also when an
\* individual store write fails.
C11_ContributorsFinalized ==
    (ret.op = "create_cfs_snapshot" /\ ret.status = 200)
    => \A k \in Get(snapshots[ret.target]).subjects : IsFinalized(cfds[k])

\* a successful snapshot whose listed CFD is still open in the store
C11_Witness ==
    /\ ret.op = "create_cfs_snapshot"
    /\ ret.status = 200
    /\ \E k \in Get(snapshots[ret.target]).subjects : ~IsFinalized(cfds[k])

\* annual grades near and on a half, in lists of one to three years
CifGradeLists == ListsUpTo({ 9, 10, 14, 15 }, 3) \ { <<>> }

\* on each of these lists _compute_cif returns the mean and its half-up rounding
CifIsRoundedMean ==
    \A grades \in CifGradeLists :
        LET total == SumOver(DOMAIN grades, grades)
        IN  /\ FracIs(_compute_cif(grades).cif_raw, total, Len(grades))
            /\ IsHalfUpOf(_compute_cif(grades).cif_grade, total, Len(grades))

\* C18: _compute_cif over a non-empty list of annual grades returns cif_raw =
\* their arithmetic mean and cif_grade = roundHalfUp(cif_raw); for an empty list
\* it raises instead of returning a default, and get_cfs_dashboard produces no
\* CFD for a subject that has no annual grade in any year.
C18_Cif ==
    /\ CifIsRoundedMean
    /\ DOMAIN _compute_cif(<<>>) = { "raises" }
    /\ (AfterDashboard /\ ~TerminalCfd.is_finalized)
       => LET grades == { y \in DOMAIN annual_grades : ~IsNone(annual_grades[y]) }
              total == SumOver(grades, [y \in grades |-> Get(annual_grades[y])])
          IN  /\ FracIs(TerminalCfd.cif_raw, total, Cardinality(grades))
              /\ IsHalfUpOf(TerminalCfd.cif_grade, total, Cardinality(grades))
    /\ (ret.op = "get_cfs_dashboard" /\ \A y \in DOMAIN annual_grades : IsNone(annual_grades[y]))
       => /\ Get(body).cfds = <<>>
          /\ \A k \in DOMAIN cfds : IsNone(cfds[k])

\* a dashboard load for a subject without any annual grade: nothing listed,
\* nothing stored
C18_Witness ==
    /\ ret.op = "get_cfs_dashboard"
    /\ \A y \in DOMAIN annual_grades : IsNone(annual_grades[y])
    /\ Get(body).cfds = <<>>
    /\ IsNone(cfds[TerminalYear])
    /\ _compute_cif(<<14, 15>>).cif_grade = 15

\* C19: when no exam score applies to the subject (the student is not an exam
\* candidate in the terminal enrollment, or no score has been entered), the
\* dashboard computes cfd_raw = cif_grade, cfd_grade = cif_grade and a null
\* exam_weight, at every education level and cohort.
C19_NoExamCfd ==
    (/\ AfterDashboard
     /\ ~TerminalCfd.is_finalized
     /\ \/ ~enrollments[TerminalYear].is_exam_candidate
        \/ IsNone(TerminalCfd.exam_grade_raw))
    => /\ IsNone(TerminalCfd.exam_weight)
       /\ TerminalCfd.cfd_grade = TerminalCfd.cif_grade
       /\ FracIs(TerminalCfd.cfd_raw, TerminalCfd.cif_grade, 1)

\* a básico student of cohort 2024 who is not an exam candidate, after a
\* dashboard load
C19_Witness ==
    /\ AfterDashboard
    /\ ~TerminalCfd.is_finalized
    /\ ~enrollments[TerminalYear].is_exam_candidate
    /\ Get(settings).education_level = "basico_3_ciclo"
    /\ Get(settings).graduation_cohort_year = Some(2024)
    /\ IsNone(TerminalCfd.exam_weight)
    /\ TerminalCfd.cfd_grade = 14
    /\ TerminalCfd.cfd_raw = [num |-> 14, den |-> 1]

\* C20: the dashboard recompute is idempotent: a get_cfs_dashboard call that
\* follows another with no mutation in between returns the same CFDs,
\* computed_cfs and computed_dges, and leaves every stored CFD row as the first
\* call left it.
C20_DashboardIdempotent ==
    ret.op = "get_cfs_dashboard"
    => /\ DashboardStore = cfds
       /\ body = Some([cfds |-> DashboardCfds, computed |-> DashboardCfs])

\* after a dashboard load that blended an exam score into an open CFD and
\* computed a CFS
C20_Witness ==
    /\ AfterDashboard
    /\ ScoredOpenCandidate
    /\ ~IsNone(TerminalCfd.exam_weight)
    /\ TerminalCfd.cfd_grade # TerminalCfd.cif_grade
    /\ ~IsNone(Get(body).computed)

\* CFD lists in which no row affects the CFS
IneligibleCfdLists ==
    ListsUpTo({ [cfd_grade |-> g, duration_years |-> y, affects_cfs |-> FALSE] :
                  g \in { 12, 16 }, y \in { 1, 3 } }, 2)

\* _compute_cfs_value returns (None, None) on each of them, for every cohort
NoEligibleIsNull ==
    \A ineligible \in IneligibleCfdLists : \A cohort_year \in CohortInputs :
        _compute_cfs_value(ineligible, cohort_year) = None

\* no annual grade of the subject exists, so the dashboard lists no CFD
NoCfdListed == \A y \in DOMAIN annual_grades : IsNone(annual_grades[y])

\* C21: with zero eligible CFDs the CFS computation yields (null, null), and
\* create_cfs_snapshot then fails with "Cannot compute CFS - missing CFDs": no
\* snapshot row is created or updated and no CFD becomes finalized.
C21_NoCfsNoSnapshot ==
    [][/\ (ret'.op = "create_cfs_snapshot" /\ ~IsNone(settings) /\ NoCfdListed)
          => /\ ret'.status = 400
             /\ snapshots' = snapshots
             /\ \A k \in DOMAIN cfds : IsFinalized(cfds'[k]) => IsFinalized(cfds[k])
       /\ NoEligibleIsNull]_vars

\* a rejected snapshot request of a student with settings and no annual grade
C21_Witness ==
    /\ ret.op = "create_cfs_snapshot"
    /\ ret.status = 400
    /\ ~IsNone(settings)
    /\ NoCfdListed
    /\ \A y \in DOMAIN snapshots : IsNone(snapshots[y])

-----------------------------------------------------------------------------
(* Further properties of the period cascade (checked under Spec) *)

\* C13: clearing an override through update_period_grade (no pauta_grade in the
\* request) sets pauta_grade to the period's existing calculated_grade; when that
\* is null because no element is graded, pauta_grade becomes null and the
\* enrollment's AnnualSubjectGrade is deleted.
C13_ClearOverride ==
    [][\A p \in Periods :
          (periods[p].is_overridden /\ update_period_grade(p, None))
          => /\ periods'[p].pauta_grade = periods[p].calculated_grade
             /\ IsNone(periods[p].calculated_grade)
                => (IsNone(periods'[p].pauta_grade) /\ IsNone(annual'))]_vars

\* what clearing an override does: the flag and the reason go, the overriding
\* pauta_grade stays, and so does the annual grade computed from it
C13_OverrideValueKept ==
    [][\A p \in Periods :
          (periods[p].is_overridden /\ update_period_grade(p, None))
          => /\ periods'[p] = [periods[p] EXCEPT !.is_overridden = FALSE,
                                                  !.override_reason = None]
             /\ annual' = annual]_vars

\* a period back in calculated mode whose pauta is still the override value,
\* with a different calculated grade
C13_Witness ==
    /\ ret.op = "update_period_grade"
    /\ ~periods[ret.target].is_overridden
    /\ periods[ret.target].pauta_grade = Some(12)
    /\ periods[ret.target].calculated_grade = Some(13)

ElementOps == { "replace_elements", "update_element_grade" }

\* the step is a recalculation of period p by an element operation
Recalculates(p) == ret'.op \in ElementOps /\ ret'.status = 200 /\ ret'.target = p

\* the override columns of period p are as before the step
OverrideKept(p) ==
    /\ periods'[p].is_overridden = periods[p].is_overridden
    /\ periods'[p].override_reason = periods[p].override_reason

\* C14: recalculate_period_grade on an overridden period leaves
\* pauta_grade and override_reason unchanged and updates only raw_calculated and
\* calculated_grade; on a period that is not overridden it sets pauta_grade to
\* the new calculated_grade.
C14_PautaFollowsCalculated ==
    [][\A p \in Periods :
          Recalculates(p)
          => /\ OverrideKept(p)
             /\ IF periods[p].is_overridden
                THEN periods'[p].pauta_grade = periods[p].pauta_grade
                ELSE periods'[p].pauta_grade = periods'[p].calculated_grade]_vars

\* what the code does: pauta_grade follows the calculated grade only when the
\* recalculation finds a graded element; when none is graded the calculated
\* fields are cleared and pauta_grade is left as it was, overridden or not
C14_PautaFollowsWhenGraded ==
    [][\A p \in Periods :
          Recalculates(p)
          => /\ OverrideKept(p)
             /\ IF periods[p].is_overridden \/ ~HasGraded(elements'[p])
                THEN periods'[p].pauta_grade = periods[p].pauta_grade
                ELSE /\ ~IsNone(periods'[p].calculated_grade)
                     /\ periods'[p].pauta_grade = periods'[p].calculated_grade]_vars

\* a recalculation of an overridden period: the calculated grade moved to 13,
\* the pauta stayed at the override value
C14_Witness ==
    /\ ret.op \in ElementOps
    /\ ret.status = 200
    /\ periods[ret.target].is_overridden
    /\ periods[ret.target].pauta_grade = Some(12)
    /\ periods[ret.target].calculated_grade = Some(13)
    /\ periods[ret.target].override_reason = Some("reason")

\* period rows with and without earlier calculated values, overridden or not
SamplePeriods ==
    { [raw_calculated |-> rc, calculated_grade |-> cg, pauta_grade |-> pg,
       is_overridden |-> o, override_reason |-> None] :
         rc \in { None, Some(650) }, cg \in { None, Some(7) },
         pg \in { None, Some(12) }, o \in BOOLEAN }

\* recalculating any of the sample periods over no elements leaves both
\* calculated fields null
NoElementsClears ==
    \A per \in SamplePeriods :
        /\ RecalculatedPeriod(per, <<>>).raw_calculated = None
        /\ RecalculatedPeriod(per, <<>>).calculated_grade = None

\* C15: when a period has no evaluation elements, or none of its elements has a
\* raw_grade, recalculate_period_grade sets raw_calculated and calculated_grade
\* to null, never to 0.
C15_ClearedNotZero ==
    [][/\ \A p \in Periods :
            (Recalculates(p) /\ \A i \in DOMAIN elements'[p] : IsNone(elements'[p][i].raw_grade))
            => /\ periods'[p].raw_calculated = None
               /\ periods'[p].calculated_grade = None
       /\ NoElementsClears]_vars

\* elements exist, none is graded, and the calculated fields that earlier held
\* 6.5 and 7 are null
C15_Witness ==
    /\ ret.op = "update_element_grade"
    /\ ret.status = 200
    /\ elements[ret.target] # <<>>
    /\ \A i \in DOMAIN elements[ret.target] : IsNone(elements[ret.target][i].raw_grade)
    /\ periods[ret.target].pauta_grade = Some(7)
    /\ periods[ret.target].raw_calculated = None
    /\ periods[ret.target].calculated_grade = None

\* the weights of a payload, summed
PayloadWeight(payload) ==
    SumOver(DOMAIN payload, [i \in DOMAIN payload |-> payload[i].weight_percentage])

\* C16: replace_elements with weights that do not sum to exactly 100 (99, 101,
\* the empty list) fails with a validation error before any write: stored
\* elements, raw_calculated, calculated_grade, pauta_grade and the annual grade
\* are unchanged; with weights summing to 100 it succeeds and the stored elements
\* of the period are exactly the submitted ones.
C16_WeightSum ==
    [][\A p \in Periods : \A payload \in ElementPayloads :
          (ret'.op = "replace_elements" /\ ret'.target = p /\ replace_elements(p, payload))
          => IF PayloadWeight(payload) = 100
             THEN /\ ret'.status = 200
                  /\ elements'[p] = payload
                  /\ \A q \in Periods \ {p} : elements'[q] = elements[q]
             ELSE /\ ret'.status = 400
                  /\ elements' = elements
                  /\ periods' = periods
                  /\ annual' = annual]_vars

\* a rejected replacement on a period that holds elements and grades
C16_Witness ==
    /\ ret.op = "replace_elements"
    /\ ret.status = 400
    /\ elements[ret.target] # <<>>
    /\ ~IsNone(periods[ret.target].calculated_grade)
    /\ ~IsNone(annual)
    /\ \E payload \in ElementPayloads : PayloadWeight(payload) = 99
    /\ \E payload \in ElementPayloads : PayloadWeight(payload) = 101

-----------------------------------------------------------------------------
(* Properties of the period cascade with direct annual-grade entry (SpecAnnual) *)

\* C12: every recalculation of a period's grade (by replace_elements or
\* update_element_grade) is followed by an annual-grade recalculation for the
\* enrollment, overridden or not, and also when no element is graded: after the
\* operation the annual row is what _try_recalculate_annual makes of the periods.
C12_CascadeAlways ==
    [][(ret'.op \in ElementOps /\ ret'.status = 200)
       => annual' = _try_recalculate_annual(periods', period_weights)]_vars

\* an element operation that left no graded element and an annual grade that a
\* recalculation would have deleted
C12_Witness ==
    /\ ret.op \in ElementOps
    /\ ret.status = 200
    /\ ~HasGraded(elements[ret.target])
    /\ ~IsNone(annual)
    /\ \E n \in Periods : IsNone(periods[n].pauta_grade)

-----------------------------------------------------------------------------
(* Properties of the settings table (checked under SpecSettings) *)

\* the weights of a settings row, summed
RowWeight(row) ==
    SumOver(DOMAIN row.period_weights, [i \in DOMAIN row.period_weights |-> row.period_weights[i]])

\* every row with a regime has 2 weights if semestral and 3 if trimestral,
\* summing to 100, and no academic year has two rows
SettingsWellFormed(rows) ==
    /\ \A i \in DOMAIN rows :
          /\ rows[i].regime = Some("semestral") => Len(rows[i].period_weights) = 2
          /\ rows[i].regime = Some("trimestral") => Len(rows[i].period_weights) = 3
          /\ ~IsNone(rows[i].regime) => RowWeight(rows[i]) = 100
    /\ \A i, j \in DOMAIN rows : rows[i].academic_year = rows[j].academic_year => i = j

\* C17: create_settings rejects, before persisting anything, period_weights that
\* do not sum to 100, a semestral regime without exactly 2 weights, a trimestral
\* regime without exactly 3, and an academic year that already has settings
\* (conflict); so every stored GradeSettings with a regime has 2 weights if
\* semestral and 3 if trimestral, summing to 100, and there is at most one
\* GradeSettings per academic year.
C17_SettingsValidated ==
    [][/\ (ret'.op = "create_settings" /\ ret'.status # 200)
          => /\ ret'.status \in { 400, 409 }
             /\ grade_settings' = grade_settings
             /\ year_enrollments' = year_enrollments
       /\ (ret'.op = "create_settings" /\ ret'.status = 409)
          => SettingsOf(grade_settings, ret'.target) # {}
       /\ (ret'.op = "create_settings" /\ ret'.status = 200)
          => /\ SettingsOf(grade_settings, ret'.target) = {}
             /\ SettingsOf(grade_settings', ret'.target) # {}
       /\ SettingsWellFormed(grade_settings')]_vars

\* a semestral and a trimestral year are stored and a further create_settings
\* for one of them was refused as a conflict
C17_Witness ==
    /\ ret.op = "create_settings"
    /\ ret.status = 409
    /\ \E i \in DOMAIN grade_settings : grade_settings[i].regime = Some("semestral")
    /\ \E i \in DOMAIN grade_settings : grade_settings[i].regime = Some("trimestral")

-----------------------------------------------------------------------------
(* Properties of the quiz grader (checked under SpecQuiz) *)

\* the attempt that was graded and what the grader returned for it
AttemptGraded == ~IsNone(quiz_result)

AttemptQuestions == Get(quiz_args).questions

AttemptReport == Get(quiz_result)

\* the id of question i of the attempt and the answer submitted under it
AttemptId(i) == "q" \o ToString(i)

AttemptAnswer(i) == DictGet(_extract_answers(Get(quiz_args).payload), AttemptId(i))

\* the normalised content of a question defines the correct answer of its type
HasCorrectAnswer(question) ==
    LET content == DictGet(_normalize_question_for_grading(question), "content")
        type == DictGet(question, "type").s
    IN  CASE type \in { "multiple_choice", "true_false" } ->
                DictGet(content, "correct_answer") \notin { JNull, JStr("") }
          [] type = "fill_blank" -> Truthy(DictGet(content, "blanks"))
          [] type = "matching" -> Truthy(DictGet(content, "correct_pairs"))
          [] type \in { "short_answer", "multiple_response" } ->
                Truthy(DictGet(content, "correct_answers"))
          [] type = "ordering" -> Truthy(DictGet(content, "correct_order"))
          [] OTHER -> FALSE

GradableQuestions == { i \in DOMAIN AttemptQuestions : HasCorrectAnswer(AttemptQuestions[i]) }

\* the entries of the per-question results that are about question i
ResultsFor(i) ==
    { k \in DOMAIN Get(AttemptReport).results :
        Get(AttemptReport).results[k].question_id = AttemptId(i) }

\* C23: _grade_quiz_attempt returns score = round(correct/total*100, 2) where
\* total counts exactly the questions with a determinable correct answer;
\* questions that grade as ungraded (open_extended, context_group, or any type
\* lacking a correct-answer definition) are left out of total, of correct and
\* of the per-question results; when total is 0 it returns no score at all
\* (None), not 0.
C23_ScoreOverGradable ==
    AttemptGraded =>
        IF GradableQuestions = {} THEN AttemptReport = None
        ELSE /\ AttemptReport # None
             /\ Get(AttemptReport).total_questions = Cardinality(GradableQuestions)
             /\ Len(Get(AttemptReport).results) = Cardinality(GradableQuestions)
             /\ \A i \in DOMAIN AttemptQuestions :
                   Cardinality(ResultsFor(i)) = IF i \in GradableQuestions THEN 1 ELSE 0
             /\ Get(AttemptReport).correct_questions =
                   Cardinality({ k \in DOMAIN Get(AttemptReport).results :
                                   Get(AttemptReport).results[k].is_correct })
             \* the score, in hundredths, is the nearest to correct / total * 100
             /\ 2 * Get(AttemptReport).score * Get(AttemptReport).total_questions
                   - 20000 * Get(AttemptReport).correct_questions
                   \in -Get(AttemptReport).total_questions .. Get(AttemptReport).total_questions

\* an attempt of an essay question and a correctly ordered ordering question
\* scored 100 over the one question that can be graded
C23_Witness ==
    /\ AttemptGraded
    /\ Len(AttemptQuestions) = 2
    /\ DictGet(AttemptQuestions[1], "type") = JStr("open_extended")
    /\ DictGet(AttemptQuestions[2], "type") = JStr("ordering")
    /\ AttemptReport # None
    /\ Get(AttemptReport).total_questions = 1
    /\ Get(AttemptReport).score = 10000

\* the list an answer submits: the answer itself, or what an answer object
\* carries under "value", "selected" or "order"
SubmittedList(answer) ==
    IF answer.t = "list" THEN answer.items
    ELSE IF HasKey(answer, "value") /\ DictGet(answer, "value").t = "list"
    THEN DictGet(answer, "value").items
    ELSE IF HasKey(answer, "selected") /\ DictGet(answer, "selected").t = "list"
    THEN DictGet(answer, "selected").items
    ELSE IF HasKey(answer, "order") /\ DictGet(answer, "order").t = "list"
    THEN DictGet(answer, "order").items
    ELSE <<>>

\* the ids of a list, in order: its entries other than null and ""
IdsIn(items) == SelectSeq(items, LAMBDA item : item \notin { JNull, JStr("") })

\* the correct-answer list of question i under a key of its normalised content
CorrectList(i, key) ==
    DictGet(DictGet(_normalize_question_for_grading(AttemptQuestions[i]), "content"), key).items

OrderingQuestions ==
    { i \in GradableQuestions : DictGet(AttemptQuestions[i], "type") = JStr("ordering") }

\* the per-question result of question i
ResultOf(i) == Get(AttemptReport).results[CHOOSE k \in ResultsFor(i) : TRUE]

\* C24: an ordering question that has a correct_order is graded correct if and
\* only if the submitted sequence equals correct_order position by position;
\* any other permutation is incorrect, and an empty or missing submission is
\* reported with answered = false and is_correct = false while still counting
\* toward the gradable total.
C24_OrderingExact ==
    AttemptGraded =>
        \A i \in OrderingQuestions :
            /\ AttemptReport # None
            /\ ResultsFor(i) # {}
            /\ ResultOf(i).is_correct
                  <=> IdsIn(SubmittedList(AttemptAnswer(i))) = CorrectList(i, "correct_order")
            /\ SubmittedList(AttemptAnswer(i)) = <<>>
                  => ~ResultOf(i).answered /\ ~ResultOf(i).is_correct

\* the set of the ids of a list
IdSet(items) == { IdsIn(items)[k].s : k \in DOMAIN IdsIn(items) }

\* the set of (left, right) pairs a value holds: a list of two-element lists,
\* or an object from left ids to right ids
PairSet(value) ==
    IF value.t = "list"
    THEN { << value.items[k].items[1].s, value.items[k].items[2].s >> :
             k \in { j \in DOMAIN value.items : Len(value.items[j].items) = 2 } }
    ELSE IF value.t = "dict"
    THEN { << e[1], e[2].s >> : e \in value.entries }
    ELSE {}

QuestionsOfType(type) ==
    { i \in GradableQuestions : DictGet(AttemptQuestions[i], "type") = JStr(type) }

\* C25: multiple_response and matching answers are compared as unordered sets
\* with no partial credit: the result is correct if and only if the submitted
\* set of option ids (or of (left, right) pairs) equals the correct set, so
\* reordering or duplicating submitted entries never changes the result, and a
\* missing or extra entry always makes it incorrect.
C25_UnorderedSets ==
    AttemptGraded =>
        /\ \A i \in QuestionsOfType("multiple_response") :
              /\ ResultsFor(i) # {}
              /\ ResultOf(i).is_correct
                    <=> IdSet(SubmittedList(AttemptAnswer(i))) = IdSet(CorrectList(i, "correct_answers"))
        /\ \A i \in QuestionsOfType("matching") :
              /\ ResultsFor(i) # {}
              /\ ResultOf(i).is_correct
                    <=> PairSet(AttemptAnswer(i))
                          = PairSet(DictGet(DictGet(AttemptQuestions[i], "content"), "correct_pairs"))

\* a multiple_response answer that lists the correct options in another order
\* is graded correct, and a matching answer with one pair too many incorrect
C25_Witness ==
    /\ AttemptGraded
    /\ Len(AttemptQuestions) = 2
    /\ DictGet(AttemptQuestions[1], "type") = JStr("multiple_response")
    /\ SubmittedList(AttemptAnswer(1)) = << JStr("B"), JStr("A") >>
    /\ ResultOf(1).is_correct
    /\ DictGet(AttemptQuestions[2], "type") = JStr("matching")
    /\ Cardinality(PairSet(AttemptAnswer(2))) = 3
    /\ ~ResultOf(2).is_correct

-----------------------------------------------------------------------------
(* Properties of concurrent replace_elements requests (checked under        *)
(* SpecConcurrent)                                                          *)

BothReturned == \A c \in Callers : pc[c] = "done"

\* C26: concurrent replace_elements calls on the same period are
\* last-write-wins: for two callers each submitting weights that sum to 100,
\* under every interleaving of their store operations the period's final
\* element set is exactly one caller's set (weights summing to 100), and the
\* period's calculated_grade is the one computed from that set.
C26_LastWriteWins ==
    BothReturned =>
        /\ \E c \in Callers : elements[1] = local[c].payload
        /\ WeightSum(elements[1]) = 100
        /\ periods[1].calculated_grade
              = Some(_round_half_up(RawCalculated(Graded(elements[1])), 100))

-----------------------------------------------------------------------------
(* Properties of the period cascade on a past-year enrollment (checked      *)
(* under SpecPastYear)                                                      *)

\* the annual-grade rows an import writes; no period grade that can be typed
\* in gives one of them
ImportedAnnualRows ==
    { Some([raw_annual |-> g * 100, annual_grade |-> g]) : g \in PastYearGradeInputs }

\* C27: an annual grade written by a past-year import or setup_past_year
\* (is_locked = true) is never deleted or overwritten by the period cascade:
\* later update_period_grade, override_period_grade or element edits on a
\* period of that enrollment leave the locked annual grade in place.
C27_LockedAnnualKept ==
    [][(/\ annual \in ImportedAnnualRows
        /\ ret'.op \in { "update_period_grade", "override_period_grade",
                         "replace_elements", "update_element_grade" })
       => annual' = annual]_vars

-----------------------------------------------------------------------------
(* Further properties of the CFS dashboard (checked under SpecDashboard) *)

\* C28: an entered exam score survives dashboard refreshes: once
\* update_exam_grade has stored exam_grade_raw on an unfinalized CFD, any
\* sequence of get_cfs_dashboard calls and update_enrollment toggles of
\* is_exam_candidate leaves the stored exam_grade_raw equal to the entered
\* score; only update_exam_grade or update_basico_exam_grade changes it.
C28_ExamScoreKept ==
    [][ret'.op \notin { "update_exam_grade", "update_basico_exam_grade" }
       => \A k \in DOMAIN cfds :
             (~IsNone(cfds[k]) /\ ~IsNone(Get(cfds[k]).exam_grade_raw))
                => /\ ~IsNone(cfds'[k])
                   /\ Get(cfds'[k]).exam_grade_raw = Get(cfds[k]).exam_grade_raw]_vars

\* C29: for every value of graduation_cohort_year, null included, a snapshot
\* written by create_cfs_snapshot records formula_used = "weighted_mean"
\* exactly when its cfs_value was computed as the duration-weighted mean and
\* "simple_mean" exactly when it was computed as the unweighted mean, and the
\* operation never fails on a student whose dashboard yields a non-null CFS.
C29_FormulaMatchesMean ==
    [][(/\ ret'.op = "create_cfs_snapshot"
        /\ ~IsNone(settings)
        /\ ~IsNone(DashboardCfs))
       => /\ ret'.status = 200
          /\ ~IsNone(snapshots'[ret'.target])
          /\ Get(snapshots'[ret'.target]).formula_used =
                IF UseWeighted(Get(settings).graduation_cohort_year)
                THEN "weighted_mean" ELSE "simple_mean"]_vars

-----------------------------------------------------------------------------
(* Properties of update_student_assignment (checked under SpecAssignment) *)

\* C30: once a student_assignment has status submitted or graded,
\* update_student_assignment never sets it back to in_progress: a request
\* carrying status in_progress is rejected with a conflict, also when a
\* delayed autosave request interleaves with the submission request on the
\* same row.
C30_NeverReverted ==
    [][Get(student_assignment).status \in { "submitted", "graded" }
       => Get(student_assignment').status # "in_progress"]_vars

====
